---- MODULE Spec2Model ----
(***************************************************************************)
(* Retrieval pipeline of data_agent: the Chroma vector store, the document *)
(* retriever in front of it, the text chunkers, the document processor,    *)
(* the OpenAI provider with its retries and the similarity functions.      *)
(*                                                                         *)
(* Python values are modelled as follows.  A str is a sequence of          *)
(* one-character strings where its characters matter (the chunkers, file   *)
(* suffixes) and an atom where only its identity matters (stored texts,    *)
(* ids, paths).  A dict of the vector store is the set of its              *)
(* <<key, value>> items, so the empty dict is {} and "filter matches       *)
(* metadata" is set inclusion; a dict of the document processor, which is  *)
(* updated key by key, is a function from keys to values.  Optional[T] is  *)
(* a sequence of length 0 (None) or 1.                                     *)
(***************************************************************************)
EXTENDS Integers, Sequences, FiniteSets, TLC

VARIABLES
    store,       \* DocumentRetriever.vector_store: "none", "chroma" or "custom"
    self_top_k,  \* DocumentRetriever.top_k
    coll,        \* the Chroma collection: sequence of stored entries
    collBefore,  \* the collection as it was when the last operation started
    nextUuid,    \* how many uuid4 values have been drawn
    op,          \* name of the public operation that ran last, or "idle"
    args,        \* its arguments
    ret,         \* its outcome: [raised, seq, ok, n]
    calls,       \* Vector Store operations the last Retriever operation made
    bcalls,      \* collection operations the last Chroma operation made
    text,        \* chunker input: the text
    chunk_size,  \* chunker input
    chunk_overlap, \* chunker input
    separator,   \* chunker input
    chunks,      \* chunker outcome: [raised, seq, wins, parts, tests]
    cpc,         \* chunker position: "ready" or the function that ran
    fs,          \* the files under the directory, in discovery order
    dp,          \* the DocumentProcessor: [chunk_size, chunk_overlap]
    dop,         \* DocumentProcessor method that ran last, or "idle"
    dargs,       \* its arguments
    docs,        \* its outcome: [raised, seq]
    lfn,         \* provider method that is running or ran last, or "idle"
    largs,       \* its arguments
    lpc,         \* its position: "idle", "attempt", "sleep" or "done"
    attempt,     \* the loop variable of the retry loop
    llog,        \* API requests and sleeps of the call so far, in order
    lret,        \* its outcome: [raised, value]
    vfn,         \* similarity function that ran last, or "idle"
    vec1,        \* its first argument
    vec2,        \* its second argument
    vret         \* its outcome: [raised, kind, num, den]

vars == <<store, self_top_k, coll, collBefore, nextUuid, op, args, ret, calls,
          bcalls, text, chunk_size, chunk_overlap, separator, chunks, cpc,
          fs, dp, dop, dargs, docs, lfn, largs, lpc, attempt, llog, lret,
          vfn, vec1, vec2, vret>>

storeVars == <<store, self_top_k, coll, collBefore, nextUuid, op, args, ret,
               calls, bcalls>>

chunkVars == <<text, chunk_size, chunk_overlap, separator, chunks, cpc>>

docVars == <<fs, dp, dop, dargs, docs>>

llmVars == <<lfn, largs, lpc, attempt, llog, lret>>

vecVars == <<vfn, vec1, vec2, vret>>

----------------------------------------------------------------------------
(* Bounds of the model *)

MaxColl == 2       \* entries the collection may hold
MaxBatch == 2      \* texts in one add call
MaxK == 2          \* largest explicit top_k / k
MaxResults == 2    \* longest result list a custom store hands back

MaxLen == 5        \* longest text given to the chunker
MaxSize == 4       \* largest chunk_size and chunk_overlap
MaxNeg == 1        \* chunk_size and chunk_overlap go down to -MaxNeg

(* Program constants *)

DefaultTopK == 4   \* DocumentRetriever.__init__(top_k=4)

----------------------------------------------------------------------------
(* Python helpers *)

None == <<>>
Some(x) == <<x>>
IsNone(o) == Len(o) = 0
Opt(S) == {None} \cup {Some(x) : x \in S}

Range(s) == {s[i] : i \in DOMAIN s}
Min(a, b) == IF a <= b THEN a ELSE b
Max(a, b) == IF a >= b THEN a ELSE b

SeqsUpTo(S, n) == UNION {[1..m -> S] : m \in 0..n}

\* filter(pred, seq), order kept
RECURSIVE SelectIdx(_, _, _)
SelectIdx(s, keep, i) ==
    IF i > Len(s) THEN <<>>
    ELSE (IF i \in keep THEN <<s[i]>> ELSE <<>>) \o SelectIdx(s, keep, i + 1)

\* `a or b` on Optional[int]: None and 0 are falsy
PyOr(a, b) == IF IsNone(a) \/ a[1] = 0 THEN b ELSE a[1]

----------------------------------------------------------------------------
(* Input domains *)

Texts == {"hello world"}
Queries == {"hello world", "bye"}
CallerIds == {"i1", "i2"}
UuidPool == <<"u1", "u2">>     \* the uuid4 values, in the order drawn
Metadatas == { {<<"source", "x.txt">>}, {<<"source", "y.txt">>} }
Filters == { {}, {<<"source", "x.txt">>} }
TopKChoices == {1, DefaultTopK}

\* result of a custom store's search: the store decides what it holds
CustomResult == [text |-> "bye", metadata |-> {}, id |-> "c", score |-> 0]

Ret0 == [raised |-> FALSE, seq |-> <<>>, ok |-> FALSE, n |-> 0]

----------------------------------------------------------------------------
(* The chromadb collection behind ChromaVectorStore.  Each operation either *)
(* raises (decided by the caller of these operators) or acts as below.      *)

Matches(metadata, where) == where \subseteq metadata

CollIds(c) == {c[i].id : i \in DOMAIN c}

\* collection.add: ids already present are left as they are
RECURSIVE CollAdd(_, _, _, _, _)
CollAdd(c, texts, metadatas, ids, i) ==
    IF i > Len(texts) THEN c
    ELSE CollAdd(IF ids[i] \in CollIds(c) THEN c
                 ELSE Append(c, [id |-> ids[i], text |-> texts[i],
                                 metadata |-> metadatas[i]]),
                 texts, metadatas, ids, i + 1)

\* collection.add rejects ragged or repeated ids
CollAddRejects(texts, metadatas, ids) ==
    \/ Len(ids) # Len(texts)
    \/ Len(metadatas) # Len(texts)
    \/ Cardinality(Range(ids)) # Len(ids)

\* distance of a stored text from the query text
Distance(t, query) == IF t = query THEN 0 ELSE 1

\* a query that leaves out the entries at distance 0
MutCollQueryFarOnly(c, query, n, where) ==
    LET far == SelectIdx(c, {i \in DOMAIN c : Matches(c[i].metadata, where)
                                    /\ Distance(c[i].text, query) # 0}, 1)
    IN  SubSeq(far, 1, Min(n, Len(far)))

\* collection.query(query_texts=[query], n_results=n, where=w): the nearest
\* n matching entries, nearest first
CollQuery(c, query, n, where) ==
    LET near == SelectIdx(c, {i \in DOMAIN c : Matches(c[i].metadata, where)
                                    /\ Distance(c[i].text, query) = 0}, 1)
        far  == SelectIdx(c, {i \in DOMAIN c : Matches(c[i].metadata, where)
                                    /\ Distance(c[i].text, query) # 0}, 1)
        all  == near \o far
    IN  SubSeq(all, 1, Min(n, Len(all)))

MutCollGetAll(c, where) == [i \in DOMAIN c |-> c[i].id]

\* collection.get(where=w)["ids"]
CollGet(c, where) ==
    LET hit == SelectIdx(c, {i \in DOMAIN c : Matches(c[i].metadata, where)}, 1)
    IN  [i \in DOMAIN hit |-> hit[i].id]

\* collection.delete(ids=ids)
CollDelete(c, ids) == SelectIdx(c, {i \in DOMAIN c : c[i].id \notin Range(ids)}, 1)

BCall(fn, raised, ids) == [fn |-> fn, raised |-> raised, ids |-> ids]

----------------------------------------------------------------------------
(* ChromaVectorStore.  Each operator takes the collection and the call's    *)
(* arguments and gives [coll, ret, bcalls, uuid]; `fail` is the number of   *)
(* the collection call that raises (0: none).                               *)

StoreOut(c, r, b, u) == [coll |-> c, ret |-> r, bcalls |-> b, uuid |-> u]

MutOnCollectionErrorRaise(c, b, u) ==
    StoreOut(c, [Ret0 EXCEPT !.raised = TRUE], b, u)

\* the except clause of every ChromaVectorStore operation: log, then return
\* the operation's failure value ([], False, 0)
OnCollectionError(c, b, u) == StoreOut(c, Ret0, b, u)

\* the caller's ids are set aside and ids are always generated
MutEffectiveIdsAlwaysGenerated(texts, ids, uuid) ==
    [i \in 1..Len(texts) |-> UuidPool[uuid + i]]

\* if ids is None: ids = [str(uuid.uuid4()) for _ in texts]
EffectiveIds(texts, ids, uuid) ==
    IF IsNone(ids) THEN [i \in 1..Len(texts) |-> UuidPool[uuid + i]]
    ELSE ids[1]

add_texts(c, texts, metadatas, ids, uuid, fail) ==
    LET ids2 == EffectiveIds(texts, ids, uuid)
        metas2 == IF IsNone(metadatas) THEN [i \in 1..Len(texts) |-> {}]
                  ELSE metadatas[1]
        uuid2 == IF IsNone(ids) THEN uuid + Len(texts) ELSE uuid
    IN  IF texts = <<>> THEN StoreOut(c, Ret0, <<>>, uuid)
        ELSE IF fail = 1 \/ CollAddRejects(texts, metas2, ids2)
        THEN OnCollectionError(c, <<BCall("add", TRUE, ids2)>>, uuid2)
        ELSE StoreOut(CollAdd(c, texts, metas2, ids2, 1),
                      [Ret0 EXCEPT !.seq = ids2],
                      <<BCall("add", FALSE, ids2)>>, uuid2)

\* the where argument: None means no condition
Where(filter) == IF IsNone(filter) THEN {} ELSE filter[1]

FormatResults(found, query) ==
    [i \in DOMAIN found |->
        [text |-> found[i].text, metadata |-> found[i].metadata,
         id |-> found[i].id, score |-> Distance(found[i].text, query)]]

similarity_search(c, query, k, filter, fail) ==
    IF fail = 1 \/ k <= 0
    THEN OnCollectionError(c, <<BCall("query", TRUE, <<>>)>>, 0)
    ELSE LET found == CollQuery(c, query, k, Where(filter))
         IN  StoreOut(c, [Ret0 EXCEPT !.seq = FormatResults(found, query)],
                      <<BCall("query", FALSE, <<>>)>>, 0)

\* Python truthiness of an Optional list and of an Optional dict
MutTruthyListNotNone(o) == ~IsNone(o)
TruthyList(o) == ~IsNone(o) /\ o[1] # <<>>
TruthyDict(o) == ~IsNone(o) /\ o[1] # {}

delete(c, ids, filter, fail) ==
    IF TruthyList(ids)
    THEN IF fail = 1
         THEN OnCollectionError(c, <<BCall("delete", TRUE, ids[1])>>, 0)
         ELSE StoreOut(CollDelete(c, ids[1]), [Ret0 EXCEPT !.ok = TRUE],
                       <<BCall("delete", FALSE, ids[1])>>, 0)
    ELSE IF TruthyDict(filter)
    THEN IF fail = 1
         THEN OnCollectionError(c, <<BCall("get", TRUE, <<>>)>>, 0)
         ELSE LET got == CollGet(c, filter[1])
              IN  IF got = <<>>
                  THEN StoreOut(c, [Ret0 EXCEPT !.ok = TRUE],
                                <<BCall("get", FALSE, got)>>, 0)
                  ELSE IF fail = 2
                  THEN OnCollectionError(c, <<BCall("get", FALSE, got),
                                            BCall("delete", TRUE, got)>>, 0)
                  ELSE StoreOut(CollDelete(c, got), [Ret0 EXCEPT !.ok = TRUE],
                                <<BCall("get", FALSE, got),
                                  BCall("delete", FALSE, got)>>, 0)
    ELSE StoreOut(c, [Ret0 EXCEPT !.ok = TRUE], <<>>, 0)

persist(c) == StoreOut(c, [Ret0 EXCEPT !.ok = TRUE], <<>>, 0)

count(c, fail) ==
    IF fail = 1
    THEN OnCollectionError(c, <<BCall("count", TRUE, <<>>)>>, 0)
    ELSE StoreOut(c, [Ret0 EXCEPT !.n = Len(c)],
                  <<BCall("count", FALSE, <<>>)>>, 0)

----------------------------------------------------------------------------
(* rag/chunking.py.  A text is a sequence of characters; "n" stands for    *)
(* the newline.  The functions give [raised, seq, wins, parts, tests]:      *)
(* whether the call raised, the chunks returned, for the character-stride  *)
(* algorithm the windows <<i, chunk_end>> the chunks were cut at, and for  *)
(* the separator algorithm the list current_chunk each chunk was joined    *)
(* from and the size tests the loop made.                                  *)

Alphabet == {"a", "b", "n"}
Separators == {<<"n">>, <<"n", "n">>}

ChunkOut(seq, wins) ==
    [raised |-> FALSE, seq |-> seq, wins |-> wins, parts |-> <<>>,
     tests |-> <<>>]
ChunkRaise ==
    [raised |-> TRUE, seq |-> <<>>, wins |-> <<>>, parts |-> <<>>,
     tests |-> <<>>]

\* str.split(sep) for a non-empty sep: cut at each occurrence, left to right
RECURSIVE SplitFrom(_, _, _, _)
SplitFrom(t, sep, i, cur) ==
    IF i > Len(t) THEN <<cur>>
    ELSE IF i + Len(sep) - 1 <= Len(t) /\ SubSeq(t, i, i + Len(sep) - 1) = sep
    THEN <<cur>> \o SplitFrom(t, sep, i + Len(sep), <<>>)
    ELSE SplitFrom(t, sep, i + 1, Append(cur, t[i]))

Split(t, sep) == SplitFrom(t, sep, 1, <<>>)

\* sep.join(parts)
RECURSIVE Join(_, _)
Join(parts, sep) ==
    IF parts = <<>> THEN <<>>
    ELSE IF Len(parts) = 1 THEN parts[1]
    ELSE parts[1] \o sep \o Join(Tail(parts), sep)

\* text[i:j] for 0 <= i, any integer j (0-based, j exclusive)
PySlice(t, i, j) ==
    LET j1 == IF j < 0 THEN Max(j + Len(t), 0) ELSE Min(j, Len(t))
    IN  IF i >= j1 THEN <<>> ELSE SubSeq(t, i + 1, j1)

MutStrideIgnoresOverlap(size, overlap) == size

\* stride = chunk_size - chunk_overlap; if stride <= 0: stride = chunk_size // 2
Stride(size, overlap) ==
    IF size - overlap <= 0 THEN size \div 2 ELSE size - overlap

\* the loop with the window widened by the overlap: the stride passed in is
\* size - overlap, so the window ends at i + 2 * size - stride
RECURSIVE MutCharLoopWideWindow(_, _, _, _, _, _)
MutCharLoopWideWindow(t, size, stride, i, acc, wins) ==
    IF stride < 0 \/ i >= Len(t) THEN ChunkOut(acc, wins)
    ELSE LET chunk_end == Min(i + 2 * size - stride, Len(t))
             acc2 == Append(acc, PySlice(t, i, chunk_end))
             wins2 == Append(wins, <<i, chunk_end>>)
         IN  IF chunk_end = Len(t) THEN ChunkOut(acc2, wins2)
             ELSE MutCharLoopWideWindow(t, size, stride, i + stride, acc2, wins2)

\* for i in range(0, len(text), stride): ... (stride # 0)
RECURSIVE CharLoop(_, _, _, _, _, _)
CharLoop(t, size, stride, i, acc, wins) ==
    IF stride < 0 \/ i >= Len(t) THEN ChunkOut(acc, wins)
    ELSE LET chunk_end == Min(i + size, Len(t))
             acc2 == Append(acc, PySlice(t, i, chunk_end))
             wins2 == Append(wins, <<i, chunk_end>>)
         IN  IF chunk_end = Len(t) THEN ChunkOut(acc2, wins2)
             ELSE CharLoop(t, size, stride, i + stride, acc2, wins2)

_chunk_text_by_chars(t, size, overlap) ==
    IF t = <<>> THEN ChunkOut(<<>>, <<>>)
    ELSE IF Len(t) <= size THEN ChunkOut(<<t>>, <<<<0, Len(t)>>>>)
    ELSE IF Stride(size, overlap) = 0 THEN ChunkRaise   \* range() arg 3 is zero
    ELSE CharLoop(t, size, Stride(size, overlap), 0, <<>>, <<>>)

\* the length of the joined parts in place of the sum
MutSumWithSepJoined(parts, sep) == Len(Join(parts, sep))
\* sum(len(separator) + len(s) for s in parts)
RECURSIVE SumWithSep(_, _)
SumWithSep(parts, sep) ==
    IF parts = <<>> THEN 0
    ELSE Len(sep) + Len(parts[1]) + SumWithSep(Tail(parts), sep)

\* the loop with the test total_size > overlap_size in place of >=
RECURSIVE MutEstimateLoopStrict(_, _, _, _, _)
MutEstimateLoopStrict(parts, overlap_size, sep, i, total_size) ==
    IF i < 1 THEN Len(parts)
    ELSE LET total2 == total_size + (IF i < Len(parts) THEN Len(sep) ELSE 0)
                                  + Len(parts[i])
         IN  IF total2 > overlap_size THEN Len(parts) - i + 1
             ELSE MutEstimateLoopStrict(parts, overlap_size, sep, i - 1, total2)

\* the loop of _estimate_chunks_for_overlap, from index i (1-based) down
RECURSIVE EstimateLoop(_, _, _, _, _)
EstimateLoop(parts, overlap_size, sep, i, total_size) ==
    IF i < 1 THEN Len(parts)
    ELSE LET total2 == total_size + (IF i < Len(parts) THEN Len(sep) ELSE 0)
                                  + Len(parts[i])
         IN  IF total2 >= overlap_size THEN Len(parts) - i + 1
             ELSE EstimateLoop(parts, overlap_size, sep, i - 1, total2)

_estimate_chunks_for_overlap(parts, overlap_size, sep) ==
    IF parts = <<>> THEN 0
    ELSE EstimateLoop(parts, overlap_size, sep, Len(parts), 0)

\* the loop without the append of the last chunk after it
RECURSIVE MutSepLoopNoLastChunk(_, _, _, _, _, _, _, _)
MutSepLoopNoLastChunk(splits, size, overlap, sep, i, acc, current_chunk, current_size) ==
    IF i > Len(splits)
    THEN acc
    ELSE IF splits[i] = <<>>
    THEN MutSepLoopNoLastChunk(splits, size, overlap, sep, i + 1, acc, current_chunk,
                 current_size)
    ELSE LET split_size == IF current_chunk # <<>>
                           THEN Len(sep) + Len(splits[i])
                           ELSE Len(splits[i])
             close == current_chunk # <<>> /\ current_size + split_size > size
             overlap_start ==
                 Max(0, Len(current_chunk)
                        - _estimate_chunks_for_overlap(current_chunk, overlap, sep))
             kept == SubSeq(current_chunk, overlap_start + 1, Len(current_chunk))
             test == [current_chunk |-> current_chunk,
                      current_size |-> current_size,
                      split |-> splits[i], closed |-> close]
             seen == [acc EXCEPT !.tests = Append(@, test)]
         IN  IF close
             THEN MutSepLoopNoLastChunk(splits, size, overlap, sep, i + 1,
                          [seen EXCEPT !.parts = Append(@, current_chunk)],
                          Append(kept, splits[i]),
                          SumWithSep(kept, sep) - Len(sep) + split_size)
             ELSE MutSepLoopNoLastChunk(splits, size, overlap, sep, i + 1, seen,
                          Append(current_chunk, splits[i]),
                          current_size + split_size)

\* the loop of chunk_text over splits[i..]; acc.parts holds, for each chunk
\* appended so far, the current_chunk that chunks.append(separator.join(..))
\* joined, and acc.tests, for each pass through the size test of the loop,
\* the current_chunk and current_size it saw, the split, and its outcome
RECURSIVE SepLoop(_, _, _, _, _, _, _, _)
SepLoop(splits, size, overlap, sep, i, acc, current_chunk, current_size) ==
    IF i > Len(splits)
    THEN IF current_chunk # <<>>
         THEN [acc EXCEPT !.parts = Append(@, current_chunk)]
         ELSE acc
    ELSE IF splits[i] = <<>>
    THEN SepLoop(splits, size, overlap, sep, i + 1, acc, current_chunk,
                 current_size)
    ELSE LET split_size == IF current_chunk # <<>>
                           THEN Len(sep) + Len(splits[i])
                           ELSE Len(splits[i])
             close == current_chunk # <<>> /\ current_size + split_size > size
             overlap_start ==
                 Max(0, Len(current_chunk)
                        - _estimate_chunks_for_overlap(current_chunk, overlap, sep))
             kept == SubSeq(current_chunk, overlap_start + 1, Len(current_chunk))
             test == [current_chunk |-> current_chunk,
                      current_size |-> current_size,
                      split |-> splits[i], closed |-> close]
             seen == [acc EXCEPT !.tests = Append(@, test)]
         IN  IF close
             THEN SepLoop(splits, size, overlap, sep, i + 1,
                          [seen EXCEPT !.parts = Append(@, current_chunk)],
                          Append(kept, splits[i]),
                          SumWithSep(kept, sep) - Len(sep) + split_size)
             ELSE SepLoop(splits, size, overlap, sep, i + 1, seen,
                          Append(current_chunk, splits[i]),
                          current_size + split_size)

chunk_text(t, size, overlap, sep) ==
    IF t = <<>> THEN ChunkOut(<<>>, <<>>)
    ELSE LET splits == Split(t, sep)
         IN  IF Len(splits) = 1 THEN _chunk_text_by_chars(t, size, overlap)
             ELSE LET r == SepLoop(splits, size, overlap, sep, 1,
                                   [parts |-> <<>>, tests |-> <<>>], <<>>, 0)
                      parts == r.parts
                  IN  [raised |-> FALSE,
                       seq |-> [j \in 1..Len(parts) |-> Join(parts[j], sep)],
                       wins |-> <<>>, parts |-> parts, tests |-> r.tests]

CharsPerToken == 4

\* chunk_by_tokens: chunk_text with both sizes scaled, default separator
chunk_by_tokens(t, max_tokens, overlap_tokens) ==
    chunk_text(t, max_tokens * CharsPerToken, overlap_tokens * CharsPerToken,
               <<"n">>)

----------------------------------------------------------------------------
(* chunk_markdown.  "#" and " " are themselves, "n" is the newline; the     *)
(* whitespace class \s holds the space and the newline.                    *)

MdAlphabet == {"#", " ", "n", "a"}
Whitespace == {" ", "n"}
MaxHashes == 6

\* the number of consecutive "#" from index q (1-based)
RECURSIVE HashRun(_, _)
HashRun(t, q) ==
    IF q <= Len(t) /\ t[q] = "#" THEN 1 + HashRun(t, q + 1) ELSE 0

\* #{1,6}\s at q: the greedy run of "#" must be whole, since only its end
\* can be followed by whitespace
HeadingAt(t, q) ==
    LET h == HashRun(t, q)
    IN  h >= 1 /\ h <= MaxHashes /\ q + h <= Len(t) /\ t[q + h] \in Whitespace

\* .*? up to (\n|$) from index e: the index of the first newline, or
\* Len(t) + 1
RECURSIVE LineEnd(_, _)
LineEnd(t, e) ==
    IF e > Len(t) \/ t[e] = "n" THEN e ELSE LineEnd(t, e + 1)

NoMatch == [ok |-> FALSE, g1 |-> <<>>, g2 |-> <<>>, g3 |-> <<>>, next |-> 0]

\* the match of (^|\n)(#{1,6}\s.*?)(\n|$) whose group 2 starts at q
MatchFrom(t, q, g1) ==
    LET le == LineEnd(t, q + HashRun(t, q) + 1)
    IN  [ok |-> TRUE, g1 |-> g1, g2 |-> SubSeq(t, q, le - 1),
         g3 |-> IF le <= Len(t) THEN <<"n">> ELSE <<>>,
         next |-> IF le <= Len(t) THEN le + 1 ELSE le]

\* the match starting at index p: "^" holds at the start of the text only
\* and is tried before "\n"
MatchAt(t, p) ==
    IF p = 1 /\ HeadingAt(t, 1) THEN MatchFrom(t, 1, <<>>)
    ELSE IF p <= Len(t) /\ t[p] = "n" /\ HeadingAt(t, p + 1)
    THEN MatchFrom(t, p + 1, <<"n">>)
    ELSE NoMatch

\* re.split(header_pattern, text): the pieces between the matches, each
\* match giving its three groups; p scans, start is where the piece began
RECURSIVE ReSplit(_, _, _)
ReSplit(t, p, start) ==
    IF p > Len(t) THEN <<SubSeq(t, start, Len(t))>>
    ELSE LET m == MatchAt(t, p)
         IN  IF m.ok
             THEN <<SubSeq(t, start, p - 1), m.g1, m.g2, m.g3>>
                      \o ReSplit(t, m.next, m.next)
             ELSE ReSplit(t, p + 1, start)

SplitsAt(splits, i) == IF i <= Len(splits) THEN splits[i] ELSE <<>>

\* for i in range(0, len(splits), 4): ...  (i is 1-based here)
RECURSIVE MdLoop(_, _, _, _, _, _)
MdLoop(splits, size, overlap, i, acc, current_chunk) ==
    IF i > Len(splits)
    THEN IF current_chunk # <<>> THEN Append(acc, current_chunk) ELSE acc
    ELSE LET section == SplitsAt(splits, i) \o SplitsAt(splits, i + 1)
                            \o SplitsAt(splits, i + 2) \o SplitsAt(splits, i + 3)
             close == /\ current_chunk # <<>>
                      /\ Len(current_chunk) + Len(section) > size
             overlap_size == Min(Len(current_chunk), overlap)
             overlap_text ==
                 IF overlap_size > 0
                 THEN SubSeq(current_chunk, Len(current_chunk) - overlap_size + 1,
                             Len(current_chunk))
                 ELSE <<>>
         IN  IF close
             THEN MdLoop(splits, size, overlap, i + 4,
                         Append(acc, current_chunk), overlap_text \o section)
             ELSE MdLoop(splits, size, overlap, i + 4, acc,
                         current_chunk \o section)

chunk_markdown(t, size, overlap) ==
    ChunkOut(MdLoop(ReSplit(t, 1, 1), size, overlap, 1, <<>>, <<>>), <<>>)

----------------------------------------------------------------------------
(* rag/document_processor.py.  A path is an atom; a suffix is a sequence   *)
(* of characters, since the code lower-cases it and looks at its first     *)
(* character.  A metadata dict is a function from its keys to its values.  *)
(* The methods give [raised, seq]: whether the call raised and the         *)
(* documents [text, metadata] returned.                                    *)

DefaultChunkSize == 1000
DefaultChunkOverlap == 200

Txt == <<".", "t", "x", "t">>
Md == <<".", "m", "d">>
Py == <<".", "p", "y">>
Sql == <<".", "s", "q", "l">>
Yml == <<".", "y", "m", "l">>
Yaml == <<".", "y", "a", "m", "l">>
Json == <<".", "j", "s", "o", "n">>
Csv == <<".", "c", "s", "v">>
Png == <<".", "p", "n", "g">>

\* the list process_file accepts
SupportedTypes == <<Txt, Md, Py, Sql, Yml, Yaml, Json>>

\* the list process_directory uses when file_types is None
DefaultFileTypes == <<Txt, Md, Py, Sql, Yml, Yaml, Json>>

\* str.lower() on the letters the model's suffixes are written with
LowerChar(c) ==
    CASE c = "T" -> "t"
      [] c = "X" -> "x"
      [] c = "M" -> "m"
      [] c = "D" -> "d"
      [] OTHER -> c

Lower(s) == [i \in DOMAIN s |-> LowerChar(s[i])]

EmptyDict == [k \in {} |-> 0]

\* d.update(m)
Update(d, m) ==
    [k \in DOMAIN d \cup DOMAIN m |-> IF k \in DOMAIN m THEN m[k] ELSE d[k]]

\* d[k] = v
SetItem(d, k, v) ==
    [kk \in DOMAIN d \cup {k} |-> IF kk = k THEN v ELSE d[kk]]

\* `if metadata`: neither None nor the empty dict
TruthyMeta(o) == ~IsNone(o) /\ DOMAIN o[1] # {}

DocOut(seq) == [raised |-> FALSE, seq |-> seq]
DocRaise == [raised |-> TRUE, seq |-> <<>>]

\* except Exception: logger.error(...); return []
OnTextFileError == DocOut(<<>>)
OnFileError == DocOut(<<>>)
OnDirectoryError == DocOut(<<>>)

\* the keys are set only where the caller's metadata does not have them
MutChunkMetadataKeepCaller(base_metadata, i, n) ==
    Update([chunk_index |-> i, chunk_count |-> n], base_metadata)

\* chunk_metadata = base_metadata.copy(); then the two assignments
ChunkMetadata(base_metadata, i, n) ==
    SetItem(SetItem(base_metadata, "chunk_index", i), "chunk_count", n)

\* f is the file at file_path: [path, rel, name, suffix, sub, readable,
\* content]
_process_text_file(f, metadata, size, overlap) ==
    IF ~f.readable THEN OnTextFileError       \* open() or read() raises
    ELSE LET base0 == [source |-> f.path, file_type |-> Lower(f.suffix),
                       file_name |-> f.name]
             base_metadata == IF TruthyMeta(metadata)
                              THEN Update(base0, metadata[1]) ELSE base0
             out == chunk_text(f.content, size, overlap, <<"n">>)
         IN  IF out.raised THEN OnTextFileError
             ELSE DocOut([i \in 1..Len(out.seq) |->
                            [text |-> out.seq[i],
                             metadata |-> ChunkMetadata(base_metadata, i - 1,
                                                        Len(out.seq))]])

process_file(fsys, path, metadata, size, overlap) ==
    LET at == {i \in DOMAIN fsys : fsys[i].path = path}
    IN  IF at = {} THEN DocOut(<<>>)          \* not file_path.exists()
        ELSE LET f == fsys[CHOOSE i \in at : TRUE]
                 out == _process_text_file(f, metadata, size, overlap)
             IN  IF Lower(f.suffix) \in Range(SupportedTypes)
                 THEN IF out.raised THEN OnFileError ELSE out
                 ELSE DocOut(<<>>)            \* unsupported file type

\* ft.lower() if ft.startswith('.') else f'.{ft.lower()}'
Normalize(ft) ==
    IF ft # <<>> /\ ft[1] = "." THEN Lower(ft) ELSE <<".">> \o Lower(ft)

EffectiveTypes(file_types) ==
    LET given == IF IsNone(file_types) THEN DefaultFileTypes ELSE file_types[1]
    IN  [i \in DOMAIN given |-> Normalize(given[i])]

RootDir == "d"

\* os.walk(directory_path) when recursive, else the files of iterdir()
Discovered(fsys, recursive) ==
    SelectSeq(fsys, LAMBDA f : recursive \/ ~f.sub)

\* str(file_path.relative_to(directory_path)) or file_path.name
RelativePath(f, recursive) == IF recursive THEN f.rel ELSE f.name

\* the loop stops at the first file that gives no document
RECURSIVE MutDirLoopStopAtFailure(_, _, _, _, _, _, _, _, _)
MutDirLoopStopAtFailure(fsys, files, i, metadata, types, recursive, size, overlap, acc) ==
    IF i > Len(files) THEN DocOut(acc)
    ELSE IF Lower(files[i].suffix) \in Range(types)
    THEN LET file_metadata ==
                 SetItem(IF TruthyMeta(metadata) THEN metadata[1]
                         ELSE EmptyDict,
                         "relative_path", RelativePath(files[i], recursive))
             out == process_file(fsys, files[i].path, Some(file_metadata),
                                 size, overlap)
         IN  IF out.raised THEN DocRaise
             ELSE IF out.seq = <<>> THEN DocOut(acc)
             ELSE MutDirLoopStopAtFailure(fsys, files, i + 1, metadata, types,
                                          recursive, size, overlap,
                                          acc \o out.seq)
    ELSE MutDirLoopStopAtFailure(fsys, files, i + 1, metadata, types,
                                 recursive, size, overlap, acc)

\* the loop of process_directory over the discovered files
RECURSIVE DirLoop(_, _, _, _, _, _, _, _, _)
DirLoop(fsys, files, i, metadata, types, recursive, size, overlap, acc) ==
    IF i > Len(files) THEN DocOut(acc)
    ELSE IF Lower(files[i].suffix) \in Range(types)
    THEN LET file_metadata ==
                 SetItem(IF TruthyMeta(metadata) THEN metadata[1]
                         ELSE EmptyDict,
                         "relative_path", RelativePath(files[i], recursive))
             out == process_file(fsys, files[i].path, Some(file_metadata),
                                 size, overlap)
         IN  IF out.raised THEN DocRaise
             ELSE DirLoop(fsys, files, i + 1, metadata, types, recursive,
                          size, overlap, acc \o out.seq)
    ELSE DirLoop(fsys, files, i + 1, metadata, types, recursive, size,
                 overlap, acc)

process_directory(fsys, dir, metadata, file_types, recursive, size, overlap) ==
    IF dir # RootDir THEN DocOut(<<>>)        \* not exists() or not is_dir()
    ELSE LET out == DirLoop(fsys, Discovered(fsys, recursive), 1, metadata,
                            EffectiveTypes(file_types), recursive, size,
                            overlap, <<>>)
         IN  IF out.raised THEN OnDirectoryError ELSE out

----------------------------------------------------------------------------
(* DocumentRetriever.  The operators below take the outcomes of the Vector  *)
(* Store operations the method calls and give what the method returns and   *)
(* the calls it made.                                                        *)

Call(fn, out, k) == [fn |-> fn, raised |-> out.raised, seq |-> out.seq,
                     ok |-> out.ok, k |-> k]

RetrOut(r, c) == [ret |-> r, calls |-> c]

\* top_k = top_k or self.top_k
EffectiveTopK(top_k, default) == PyOr(top_k, default)

MutOnStoreErrorRaise == [Ret0 EXCEPT !.raised = TRUE]

\* except Exception: log, return the method's failure value
OnStoreError == Ret0

\* the results are handed back in the opposite order
MutRetrieveReversed(k, searchOut) ==
    RetrOut(IF searchOut.raised THEN OnStoreError
            ELSE [Ret0 EXCEPT !.seq =
                      [i \in DOMAIN searchOut.seq |->
                          searchOut.seq[Len(searchOut.seq) + 1 - i]]],
            <<Call("similarity_search", searchOut, k)>>)

\* retrieve, once a store is known to be configured
retrieve(k, searchOut) ==
    RetrOut(IF searchOut.raised THEN OnStoreError
            ELSE [Ret0 EXCEPT !.seq = searchOut.seq],
            <<Call("similarity_search", searchOut, k)>>)

MutAddDocumentsPersistIfAdded(addOut, persistOut) ==
    IF addOut.raised
    THEN RetrOut(OnStoreError, <<Call("add_texts", addOut, 0)>>)
    ELSE IF addOut.seq = <<>>
    THEN RetrOut(Ret0, <<Call("add_texts", addOut, 0)>>)
    ELSE RetrOut(IF persistOut.raised THEN OnStoreError
                 ELSE [Ret0 EXCEPT !.seq = addOut.seq],
                 <<Call("add_texts", addOut, 0), Call("persist", persistOut, 0)>>)

\* add_documents, once a store is known to be configured
add_documents(addOut, persistOut) ==
    IF addOut.raised
    THEN RetrOut(OnStoreError, <<Call("add_texts", addOut, 0)>>)
    ELSE RetrOut(IF persistOut.raised THEN OnStoreError
                 ELSE [Ret0 EXCEPT !.seq = addOut.seq],
                 <<Call("add_texts", addOut, 0), Call("persist", persistOut, 0)>>)

MutDeleteDocumentsAlwaysPersist(delOut, persistOut) ==
    IF delOut.raised
    THEN RetrOut(OnStoreError, <<Call("delete", delOut, 0)>>)
    ELSE RetrOut(IF persistOut.raised THEN OnStoreError
                 ELSE [Ret0 EXCEPT !.ok = delOut.ok],
                 <<Call("delete", delOut, 0), Call("persist", persistOut, 0)>>)

\* delete_documents, once a store is known to be configured
delete_documents(delOut, persistOut) ==
    IF delOut.raised
    THEN RetrOut(OnStoreError, <<Call("delete", delOut, 0)>>)
    ELSE IF delOut.ok
    THEN RetrOut(IF persistOut.raised THEN OnStoreError
                 ELSE [Ret0 EXCEPT !.ok = delOut.ok],
                 <<Call("delete", delOut, 0), Call("persist", persistOut, 0)>>)
    ELSE RetrOut([Ret0 EXCEPT !.ok = delOut.ok], <<Call("delete", delOut, 0)>>)

\* `if not self.vector_store`: warn and return the failure value
NoStore == RetrOut(Ret0, <<>>)

(* What a store other than ChromaVectorStore may answer (BaseVectorStore    *)
(* fixes the types only): it raises, or returns a value of the right type.  *)

Raise == [Ret0 EXCEPT !.raised = TRUE]
CustomSearchOuts(k) ==
    {Raise} \cup {[Ret0 EXCEPT !.seq = [i \in 1..n |-> CustomResult]] :
                     n \in 0..Min(k, MaxResults)}
CustomAddOuts(texts, ids) ==
    {Raise, Ret0,
     [Ret0 EXCEPT !.seq = IF IsNone(ids) THEN [i \in 1..Len(texts) |-> "c"]
                          ELSE ids[1]]}
CustomBoolOuts == {Raise, Ret0, [Ret0 EXCEPT !.ok = TRUE]}

----------------------------------------------------------------------------
(* llm/openai.py and EmbeddingProvider.get_embedding.  A request to the API *)
(* raises or answers; the answer of the chat API is its list of choices,    *)
(* each the Optional content of the choice's message, and the answer of the *)
(* embeddings API is its list of embeddings.  The methods are modelled step *)
(* by step: one request or one sleep per step.  A text is an atom, "" the   *)
(* empty string.                                                           *)

max_retries == 3
retry_delay == 1

MaxChoices == 2    \* choices (embeddings) in one answer of the API

LlmOut(v) == [raised |-> FALSE, value |-> v]

ApiRaise == [raised |-> TRUE, choices |-> <<>>]
ApiAnswer(cs) == [raised |-> FALSE, choices |-> cs]

Request(api, input, out) ==
    [kind |-> "request", api |-> api, input |-> input, out |-> out, secs |-> 0]
Sleep(secs) ==
    [kind |-> "sleep", api |-> "time", input |-> <<>>, out |-> ApiRaise,
     secs |-> secs]

\* content or ""
ContentOr(c) == IF IsNone(c) THEN "" ELSE c[1]

RECURSIVE Pow2(_)
Pow2(n) == IF n = 0 THEN 1 ELSE 2 * Pow2(n - 1)

MutSleepTimeConstant(a) == retry_delay
\* sleep_time = self.retry_delay * (2 ** attempt)
sleep_time(a) == retry_delay * Pow2(a)

\* the messages generate sends
PromptMessages(prompt) == <<[role |-> "user", content |-> prompt]>>

\* One pass through the body of the retry loop of generate and of
\* generate_with_history, up to the sleep: where the method goes next and
\* what it returns if it returns.
ChatAttempt(out, a) ==
    IF ~out.raised
    THEN IF out.choices = <<>>
         THEN [pc |-> "done", value |-> ""]
         ELSE [pc |-> "done", value |-> ContentOr(out.choices[1])]
    ELSE IF a < max_retries - 1
         THEN [pc |-> "sleep", value |-> ""]
         ELSE [pc |-> "done", value |-> ""]

\* OpenAIProvider.get_embedding: response.data[0].embedding, and [] when
\* the request or the subscript raises
EmbeddingAttempt(out) ==
    IF ~out.raised /\ out.choices # <<>>
    THEN [pc |-> "done", value |-> out.choices[1]]
    ELSE [pc |-> "done", value |-> <<>>]

----------------------------------------------------------------------------
(* rag/embeddings.py, the similarity functions.  A vector is a sequence of  *)
(* integers.  A float result is [raised, kind, num, den]: the literal 0.0   *)
(* ("zero"), float('inf') ("inf"), the quotient num / sqrt(den) of          *)
(* cosine_similarity or the root sqrt(num) of euclidean_distance.           *)

MaxDim == 2        \* components of a vector
MaxAbs == 1        \* absolute value of a component

Literal(kind) == [raised |-> FALSE, kind |-> kind, num |-> 0, den |-> 1]
Quotient(num, den) ==
    [raised |-> FALSE, kind |-> "quotient", num |-> num, den |-> den]
Root(num) == [raised |-> FALSE, kind |-> "root", num |-> num, den |-> 1]

RECURSIVE DotFrom(_, _, _)
DotFrom(v1, v2, i) ==
    IF i > Len(v1) THEN 0 ELSE v1[i] * v2[i] + DotFrom(v1, v2, i + 1)

\* np.dot(v1, v2)
Dot(v1, v2) == DotFrom(v1, v2, 1)

\* the square of np.linalg.norm(v)
NormSq(v) == Dot(v, v)

\* v1 - v2
Minus(v1, v2) == [i \in 1..Len(v1) |-> v1[i] - v2[i]]

MutCosineNoNormTest(v1, v2) == IF v1 = <<>> \/ v2 = <<>> \/ Len(v1) # Len(v2) THEN Literal("zero") ELSE Quotient(Dot(v1, v2), NormSq(v1) * NormSq(v2))
cosine_similarity(v1, v2) ==
    IF v1 = <<>> \/ v2 = <<>> \/ Len(v1) # Len(v2)
    THEN Literal("zero")
    ELSE IF NormSq(v1) = 0 \/ NormSq(v2) = 0
         THEN Literal("zero")
         ELSE Quotient(Dot(v1, v2), NormSq(v1) * NormSq(v2))

MutEuclideanNoLengthTest(v1, v2) == IF v1 = <<>> \/ v2 = <<>> THEN Literal("inf") ELSE Root(NormSq([i \in 1..Min(Len(v1), Len(v2)) |-> v1[i] - v2[i]]))
euclidean_distance(v1, v2) ==
    IF v1 = <<>> \/ v2 = <<>> \/ Len(v1) # Len(v2)
    THEN Literal("inf")
    ELSE Root(NormSq(Minus(v1, v2)))

----------------------------------------------------------------------------
(* Arguments the callers pass *)

TextLists == SeqsUpTo(Texts, MaxBatch)
MetaLists(n) == Opt([1..n -> Metadatas])
IdLists(n) == Opt([1..n -> CallerIds])
RaggedIdLists(n) == {Some(s) : s \in [1..(n - 1) -> CallerIds]}
DeleteIds == Opt(SeqsUpTo(CallerIds, 1))
OptFilters == Opt(Filters)
TopKs == Opt(0..MaxK)

LlmIdle ==
    /\ lfn = "idle" /\ largs = <<>> /\ lpc = "idle" /\ attempt = 0
    /\ llog = <<>> /\ lret = LlmOut("")

VecIdle ==
    /\ vfn = "idle" /\ vec1 = <<>> /\ vec2 = <<>> /\ vret = Literal("none")

DocIdle ==
    /\ fs = <<>>
    /\ dp = [chunk_size |-> DefaultChunkSize, chunk_overlap |-> DefaultChunkOverlap]
    /\ dop = "idle" /\ dargs = <<>> /\ docs = DocOut(<<>>)

ChunkIdle ==
    /\ text = <<>> /\ chunk_size = 0 /\ chunk_overlap = 0 /\ separator = <<>>
    /\ chunks = ChunkOut(<<>>, <<>>)
    /\ cpc = "idle"

StoreIdle ==
    /\ store = "none" /\ self_top_k = DefaultTopK
    /\ coll = <<>> /\ collBefore = <<>> /\ nextUuid = 0
    /\ op = "idle" /\ args = <<>> /\ ret = Ret0
    /\ calls = <<>> /\ bcalls = <<>>

Init ==
    /\ store \in {"none", "chroma", "custom"}
    /\ self_top_k \in TopKChoices
    /\ coll = <<>>
    /\ collBefore = <<>>
    /\ nextUuid = 0
    /\ op = "idle"
    /\ args = <<>>
    /\ ret = Ret0
    /\ calls = <<>>
    /\ bcalls = <<>>
    /\ ChunkIdle
    /\ DocIdle
    /\ LlmIdle
    /\ VecIdle

\* the public method's effects on the model's record of the last operation
Done(name, a, r, c, b) ==
    /\ op = "idle"
    /\ op' = name
    /\ args' = a
    /\ ret' = r
    /\ calls' = c
    /\ bcalls' = b
    /\ collBefore' = coll
    /\ UNCHANGED <<store, self_top_k>>
    /\ UNCHANGED chunkVars
    /\ UNCHANGED docVars
    /\ UNCHANGED llmVars
    /\ UNCHANGED vecVars

Retrieve ==
    \E query \in Queries, top_k \in TopKs, filter \in OptFilters :
      LET a == [query |-> query, top_k |-> top_k, filter |-> filter]
          k == EffectiveTopK(top_k, self_top_k)
      IN  \/ /\ store = "none"
             /\ Done("retrieve", a, NoStore.ret, NoStore.calls, <<>>)
             /\ UNCHANGED <<coll, nextUuid>>
          \/ /\ store = "chroma"
             /\ \E fail \in 0..1 :
                  LET s == similarity_search(coll, query, k, filter, fail)
                      r == retrieve(k, s.ret)
                  IN  Done("retrieve", a, r.ret, r.calls, s.bcalls)
             /\ UNCHANGED <<coll, nextUuid>>
          \/ /\ store = "custom"
             /\ \E o \in CustomSearchOuts(k) :
                  LET r == retrieve(k, o)
                  IN  Done("retrieve", a, r.ret, r.calls, <<>>)
             /\ UNCHANGED <<coll, nextUuid>>

\* room left in the model for one more add
AddFits(texts, ids) ==
    /\ Len(coll) + Len(texts) <= MaxColl
    /\ IsNone(ids) => nextUuid + Len(texts) <= Len(UuidPool)

AddDocuments ==
    \E texts \in TextLists :
    \E metadatas \in MetaLists(Len(texts)), ids \in IdLists(Len(texts)) :
      LET a == [texts |-> texts, metadatas |-> metadatas, ids |-> ids]
      IN  \/ /\ store = "none"
             /\ Done("add_documents", a, NoStore.ret, NoStore.calls, <<>>)
             /\ UNCHANGED <<coll, nextUuid>>
          \/ /\ store = "chroma"
             /\ AddFits(texts, ids)
             /\ \E fail \in 0..1 :
                  LET s == add_texts(coll, texts, metadatas, ids, nextUuid, fail)
                      r == add_documents(s.ret, persist(s.coll).ret)
                  IN  /\ Done("add_documents", a, r.ret, r.calls, s.bcalls)
                      /\ coll' = s.coll
                      /\ nextUuid' = s.uuid
          \/ /\ store = "custom"
             /\ \E o \in CustomAddOuts(texts, ids), p \in CustomBoolOuts :
                  LET r == add_documents(o, p)
                  IN  Done("add_documents", a, r.ret, r.calls, <<>>)
             /\ UNCHANGED <<coll, nextUuid>>

DeleteDocuments ==
    \E ids \in DeleteIds, filter \in OptFilters :
      LET a == [ids |-> ids, filter |-> filter]
      IN  \/ /\ store = "none"
             /\ Done("delete_documents", a, NoStore.ret, NoStore.calls, <<>>)
             /\ UNCHANGED <<coll, nextUuid>>
          \/ /\ store = "chroma"
             /\ \E fail \in 0..2 :
                  LET s == delete(coll, ids, filter, fail)
                      r == delete_documents(s.ret, persist(s.coll).ret)
                  IN  /\ Done("delete_documents", a, r.ret, r.calls, s.bcalls)
                      /\ coll' = s.coll
             /\ UNCHANGED nextUuid
          \/ /\ store = "custom"
             /\ \E o \in CustomBoolOuts, p \in CustomBoolOuts :
                  LET r == delete_documents(o, p)
                  IN  Done("delete_documents", a, r.ret, r.calls, <<>>)
             /\ UNCHANGED <<coll, nextUuid>>

(* Direct calls of the ChromaVectorStore operations *)

StoreAddTexts ==
    /\ store = "chroma"
    /\ \E texts \in TextLists :
       \E metadatas \in MetaLists(Len(texts)),
          ids \in IdLists(Len(texts)) \cup RaggedIdLists(Len(texts)),
          fail \in 0..1 :
         LET s == add_texts(coll, texts, metadatas, ids, nextUuid, fail)
         IN  /\ AddFits(texts, ids)
             /\ Done("add_texts",
                     [texts |-> texts, metadatas |-> metadatas, ids |-> ids],
                     s.ret, <<>>, s.bcalls)
             /\ coll' = s.coll
             /\ nextUuid' = s.uuid

StoreSimilaritySearch ==
    /\ store = "chroma"
    /\ \E query \in Queries, k \in 0..MaxK, filter \in OptFilters, fail \in 0..1 :
         LET s == similarity_search(coll, query, k, filter, fail)
         IN  Done("similarity_search",
                  [query |-> query, k |-> k, filter |-> filter],
                  s.ret, <<>>, s.bcalls)
    /\ UNCHANGED <<coll, nextUuid>>

StoreDelete ==
    /\ store = "chroma"
    /\ \E ids \in DeleteIds, filter \in OptFilters, fail \in 0..2 :
         LET s == delete(coll, ids, filter, fail)
         IN  /\ Done("delete", [ids |-> ids, filter |-> filter],
                     s.ret, <<>>, s.bcalls)
             /\ coll' = s.coll
    /\ UNCHANGED nextUuid

StorePersist ==
    /\ store = "chroma"
    /\ Done("persist", <<>>, persist(coll).ret, <<>>, <<>>)
    /\ UNCHANGED <<coll, nextUuid>>

StoreCount ==
    /\ store = "chroma"
    /\ \E fail \in 0..1 :
         LET s == count(coll, fail)
         IN  Done("count", <<>>, s.ret, <<>>, s.bcalls)
    /\ UNCHANGED <<coll, nextUuid>>

\* the call is over: nothing of it is kept (no state outlives a call but the
\* collection and the retriever's configuration)
Return ==
    /\ op # "idle"
    /\ op' = "idle"
    /\ args' = <<>>
    /\ ret' = Ret0
    /\ calls' = <<>>
    /\ bcalls' = <<>>
    /\ collBefore' = <<>>
    /\ UNCHANGED <<store, self_top_k, coll, nextUuid>>
    /\ UNCHANGED chunkVars
    /\ UNCHANGED docVars
    /\ UNCHANGED llmVars
    /\ UNCHANGED vecVars

Next ==
    \/ Return
    \/ Retrieve
    \/ AddDocuments
    \/ DeleteDocuments
    \/ StoreAddTexts
    \/ StoreSimilaritySearch
    \/ StoreDelete
    \/ StorePersist
    \/ StoreCount

Spec == Init /\ [][Next]_vars

----------------------------------------------------------------------------
(* The chunker on its own: the inputs are drawn at the start, then one of  *)
(* the chunking functions is applied to them.                              *)

ChunkTexts == SeqsUpTo(Alphabet, MaxLen)
ChunkInts == (0 - MaxNeg)..MaxSize

ChunkInit ==
    /\ text \in ChunkTexts
    /\ chunk_size \in ChunkInts
    /\ chunk_overlap \in ChunkInts
    /\ separator \in Separators
    /\ chunks = ChunkOut(<<>>, <<>>)
    /\ cpc = "ready"
    /\ StoreIdle
    /\ DocIdle
    /\ LlmIdle
    /\ VecIdle

ChunkText ==
    /\ cpc = "ready"
    /\ chunks' = chunk_text(text, chunk_size, chunk_overlap, separator)
    /\ cpc' = "chunk_text"
    /\ UNCHANGED <<text, chunk_size, chunk_overlap, separator>>
    /\ UNCHANGED storeVars
    /\ UNCHANGED docVars
    /\ UNCHANGED llmVars
    /\ UNCHANGED vecVars

ChunkTextByChars ==
    /\ cpc = "ready"
    /\ chunks' = _chunk_text_by_chars(text, chunk_size, chunk_overlap)
    /\ cpc' = "_chunk_text_by_chars"
    /\ UNCHANGED <<text, chunk_size, chunk_overlap, separator>>
    /\ UNCHANGED storeVars
    /\ UNCHANGED docVars
    /\ UNCHANGED llmVars
    /\ UNCHANGED vecVars

\* chunk_by_tokens(text, max_tokens = chunk_size,
\*                 overlap_tokens = chunk_overlap)
ChunkByTokens ==
    /\ cpc = "ready"
    /\ chunks' = chunk_by_tokens(text, chunk_size, chunk_overlap)
    /\ cpc' = "chunk_by_tokens"
    /\ UNCHANGED <<text, chunk_size, chunk_overlap, separator>>
    /\ UNCHANGED storeVars
    /\ UNCHANGED docVars
    /\ UNCHANGED llmVars
    /\ UNCHANGED vecVars

ChunkNext == ChunkText \/ ChunkTextByChars \/ ChunkByTokens

ChunkSpec == ChunkInit /\ [][ChunkNext]_vars

----------------------------------------------------------------------------
(* The markdown chunker on every markdown text up to MaxLen characters and  *)
(* on headings of six and of seven "#".                                     *)

SixHashes == <<"#", "#", "#", "#", "#", "#">>

MdLongTexts ==
    { SixHashes \o <<" ", "a">>,
      <<"a", "n">> \o SixHashes \o <<" ", "a">>,
      <<"#">> \o SixHashes \o <<" ", "a">> }

MdTexts == SeqsUpTo(MdAlphabet, MaxLen) \cup MdLongTexts

MdInit ==
    /\ text \in MdTexts
    /\ chunk_size \in ChunkInts
    /\ chunk_overlap \in ChunkInts
    /\ separator = <<"n">>
    /\ chunks = ChunkOut(<<>>, <<>>)
    /\ cpc = "ready"
    /\ StoreIdle
    /\ DocIdle
    /\ LlmIdle
    /\ VecIdle

ChunkMarkdown ==
    /\ cpc = "ready"
    /\ chunks' = chunk_markdown(text, chunk_size, chunk_overlap)
    /\ cpc' = "chunk_markdown"
    /\ UNCHANGED <<text, chunk_size, chunk_overlap, separator>>
    /\ UNCHANGED storeVars
    /\ UNCHANGED docVars
    /\ UNCHANGED llmVars
    /\ UNCHANGED vecVars

MdNext == ChunkMarkdown

MdSpec == MdInit /\ [][MdNext]_vars

----------------------------------------------------------------------------
(* The document processor over a directory d of up to five files, one of   *)
(* them in a subdirectory; each file is absent, unreadable, empty or holds *)
(* its text.                                                               *)

FilePool ==
    << [path |-> "d/a.txt", rel |-> "a.txt", name |-> "a.txt",
        suffix |-> Txt, sub |-> FALSE,
        content |-> <<"a", "n", "b", "n", "a">>],
       [path |-> "d/b.py", rel |-> "b.py", name |-> "b.py",
        suffix |-> Py, sub |-> FALSE, content |-> <<"b">>],
       [path |-> "d/c.csv", rel |-> "c.csv", name |-> "c.csv",
        suffix |-> Csv, sub |-> FALSE, content |-> <<"a">>],
       [path |-> "d/p.png", rel |-> "p.png", name |-> "p.png",
        suffix |-> Png, sub |-> FALSE, content |-> <<"a">>],
       [path |-> "d/s/B.MD", rel |-> "s/B.MD", name |-> "B.MD",
        suffix |-> <<".", "M", "D">>, sub |-> TRUE,
        content |-> <<"a", "b">>] >>

FileStatus == {"absent", "unreadable", "empty", "text"}

FileAt(i, st) ==
    [path |-> FilePool[i].path, rel |-> FilePool[i].rel,
     name |-> FilePool[i].name, suffix |-> FilePool[i].suffix,
     sub |-> FilePool[i].sub,
     readable |-> st # "unreadable",
     content |-> IF st = "text" THEN FilePool[i].content ELSE <<>>]

RECURSIVE ListingFrom(_, _)
ListingFrom(st, i) ==
    IF i > Len(FilePool) THEN <<>>
    ELSE (IF st[i] = "absent" THEN <<>> ELSE <<FileAt(i, st[i])>>)
             \o ListingFrom(st, i + 1)

FileSystems == {ListingFrom(st, 1) : st \in [DOMAIN FilePool -> FileStatus]}

\* DocumentProcessor(chunk_size, chunk_overlap): the defaults and three
\* small settings inside the chunker's contract
DocConfigs ==
    { [chunk_size |-> DefaultChunkSize, chunk_overlap |-> DefaultChunkOverlap],
      [chunk_size |-> 1, chunk_overlap |-> 0],
      [chunk_size |-> 3, chunk_overlap |-> 0],
      [chunk_size |-> 3, chunk_overlap |-> 1] }

DocMetadatas ==
    { EmptyDict,
      [author |-> "me"],
      [source |-> "mine", relative_path |-> "mine", author |-> "me"],
      [file_type |-> <<"x">>, file_name |-> "mine", chunk_index |-> 7,
       chunk_count |-> 9] }

FileTypeLists == { <<>>, <<Csv>>, <<<<"T", "X", "T">>, Md>>, <<Png, Py>> }

DocPaths == {FilePool[i].path : i \in DOMAIN FilePool} \cup {"d/none.txt"}

DocInit ==
    /\ fs \in FileSystems
    /\ dp \in DocConfigs
    /\ dop = "idle" /\ dargs = <<>> /\ docs = DocOut(<<>>)
    /\ StoreIdle
    /\ ChunkIdle
    /\ LlmIdle
    /\ VecIdle

ProcessFile ==
    /\ dop = "idle"
    /\ \E path \in DocPaths, metadata \in Opt(DocMetadatas) :
         /\ dargs' = [path |-> path, metadata |-> metadata]
         /\ docs' = process_file(fs, path, metadata, dp.chunk_size,
                                 dp.chunk_overlap)
    /\ dop' = "process_file"
    /\ UNCHANGED <<fs, dp>>
    /\ UNCHANGED storeVars
    /\ UNCHANGED chunkVars
    /\ UNCHANGED llmVars
    /\ UNCHANGED vecVars

ProcessDirectory ==
    /\ dop = "idle"
    /\ \E metadata \in Opt(DocMetadatas), file_types \in Opt(FileTypeLists),
          recursive \in BOOLEAN :
         /\ dargs' = [directory_path |-> RootDir, metadata |-> metadata,
                      file_types |-> file_types, recursive |-> recursive]
         /\ docs' = process_directory(fs, RootDir, metadata, file_types,
                                      recursive, dp.chunk_size,
                                      dp.chunk_overlap)
    /\ dop' = "process_directory"
    /\ UNCHANGED <<fs, dp>>
    /\ UNCHANGED storeVars
    /\ UNCHANGED chunkVars
    /\ UNCHANGED llmVars
    /\ UNCHANGED vecVars

\* a directory_path that does not exist or is not a directory
ProcessMissingDirectory ==
    /\ dop = "idle"
    /\ dargs' = [directory_path |-> "nodir", metadata |-> None,
                 file_types |-> None, recursive |-> TRUE]
    /\ docs' = process_directory(fs, "nodir", None, None, TRUE,
                                 dp.chunk_size, dp.chunk_overlap)
    /\ dop' = "process_directory"
    /\ UNCHANGED <<fs, dp>>
    /\ UNCHANGED storeVars
    /\ UNCHANGED chunkVars
    /\ UNCHANGED llmVars
    /\ UNCHANGED vecVars

DocNext == ProcessFile \/ ProcessDirectory \/ ProcessMissingDirectory

DocSpec == DocInit /\ [][DocNext]_vars

----------------------------------------------------------------------------
(* The provider on its own: a method is called, makes its requests and     *)
(* sleeps one step at a time, and returns.                                 *)

Prompts == {"p", "q"}
Histories ==
    {<<>>, PromptMessages("p"),
     <<[role |-> "system", content |-> "s"], [role |-> "user", content |-> "q"]>>}
Contents == Opt({"", "hi"})
ChatOutcomes == {ApiRaise} \cup {ApiAnswer(cs) : cs \in SeqsUpTo(Contents, MaxChoices)}
Embeddings == {<<1, 0>>, <<0, 1>>}
EmbeddingOutcomes ==
    {ApiRaise} \cup {ApiAnswer(cs) : cs \in SeqsUpTo(Embeddings, MaxChoices)}

ChatMethods == {"generate", "generate_with_history"}
EmbeddingMethods == {"get_embedding", "EmbeddingProvider.get_embedding"}

LlmInit ==
    /\ StoreIdle
    /\ ChunkIdle
    /\ DocIdle
    /\ LlmIdle
    /\ VecIdle

LlmOthers == UNCHANGED <<storeVars, chunkVars, docVars, vecVars>>

LlmCall(name, a) ==
    /\ lpc = "idle"
    /\ lfn' = name
    /\ largs' = a
    /\ lpc' = "attempt"
    /\ attempt' = 0
    /\ llog' = <<>>
    /\ lret' = LlmOut("")
    /\ LlmOthers

Generate ==
    \E prompt \in Prompts : LlmCall("generate", PromptMessages(prompt))

GenerateWithHistory ==
    \E messages \in Histories : LlmCall("generate_with_history", messages)

GetEmbedding ==
    \E t \in Prompts : LlmCall("get_embedding", t)

ProviderGetEmbedding ==
    \E t \in Prompts : LlmCall("EmbeddingProvider.get_embedding", t)

\* self.client.chat.completions.create(...) and what follows it
ChatRequest ==
    /\ lpc = "attempt"
    /\ lfn \in ChatMethods
    /\ \E out \in ChatOutcomes :
           LET r == ChatAttempt(out, attempt)
           IN /\ llog' = Append(llog, Request("chat", largs, out))
              /\ lpc' = r.pc
              /\ lret' = LlmOut(r.value)
    /\ UNCHANGED <<lfn, largs, attempt>>
    /\ LlmOthers

\* time.sleep(sleep_time), then the next iteration
TimeSleep ==
    /\ lpc = "sleep"
    /\ llog' = Append(llog, Sleep(sleep_time(attempt)))
    /\ attempt' = attempt + 1
    /\ lpc' = "attempt"
    /\ UNCHANGED <<lfn, largs, lret>>
    /\ LlmOthers

\* self.client.embeddings.create(...) and what follows it
EmbeddingRequest ==
    /\ lpc = "attempt"
    /\ lfn \in EmbeddingMethods
    /\ \E out \in EmbeddingOutcomes :
           LET r == EmbeddingAttempt(out)
           IN /\ llog' = Append(llog, Request("embeddings", largs, out))
              /\ lpc' = r.pc
              /\ lret' = LlmOut(r.value)
    /\ UNCHANGED <<lfn, largs, attempt>>
    /\ LlmOthers

LlmReturn ==
    /\ lpc = "done"
    /\ lfn' = "idle" /\ largs' = <<>> /\ lpc' = "idle" /\ attempt' = 0
    /\ llog' = <<>> /\ lret' = LlmOut("")
    /\ LlmOthers

LlmNext ==
    \/ Generate
    \/ GenerateWithHistory
    \/ GetEmbedding
    \/ ProviderGetEmbedding
    \/ ChatRequest
    \/ TimeSleep
    \/ EmbeddingRequest
    \/ LlmReturn

LlmSpec == LlmInit /\ [][LlmNext]_vars

----------------------------------------------------------------------------
(* The similarity functions on every pair of vectors of up to MaxDim       *)
(* components between -MaxAbs and MaxAbs.                                  *)

Vectors == SeqsUpTo((0 - MaxAbs)..MaxAbs, MaxDim)

VecInit ==
    /\ StoreIdle
    /\ ChunkIdle
    /\ DocIdle
    /\ LlmIdle
    /\ VecIdle

VecOthers == UNCHANGED <<storeVars, chunkVars, docVars, llmVars>>

CosineSimilarity ==
    /\ vfn = "idle"
    /\ \E v1 \in Vectors, v2 \in Vectors :
           /\ vec1' = v1 /\ vec2' = v2
           /\ vret' = cosine_similarity(v1, v2)
    /\ vfn' = "cosine_similarity"
    /\ VecOthers

EuclideanDistance ==
    /\ vfn = "idle"
    /\ \E v1 \in Vectors, v2 \in Vectors :
           /\ vec1' = v1 /\ vec2' = v2
           /\ vret' = euclidean_distance(v1, v2)
    /\ vfn' = "euclidean_distance"
    /\ VecOthers

VecReturn ==
    /\ vfn # "idle"
    /\ vfn' = "idle" /\ vec1' = <<>> /\ vec2' = <<>> /\ vret' = Literal("none")
    /\ VecOthers

VecNext ==
    \/ CosineSimilarity
    \/ EuclideanDistance
    \/ VecReturn

VecSpec == VecInit /\ [][VecNext]_vars

----------------------------------------------------------------------------
(* Properties of the Retriever and of the Vector Store *)

RetrieverOps == {"retrieve", "add_documents", "delete_documents"}
SomeCallRaised == \E i \in DOMAIN calls : calls[i].raised
SomeCollectionCallRaised == \E i \in DOMAIN bcalls : bcalls[i].raised

\* C1: retrieve returns at most top_k results for every top_k >= 0 the caller
\* gives, and at most the configured default when top_k is omitted.
C1_RetrieveAtMostTopK ==
    op = "retrieve" =>
        Len(ret.seq) <= (IF IsNone(args.top_k) THEN self_top_k
                         ELSE args.top_k[1])

\* C2: whenever add_documents returns a non-empty id sequence, the persist()
\* call made inside it reported success.
C2_AddedMeansPersisted ==
    (op = "add_documents" /\ ret.seq # <<>>) =>
        \E i \in DOMAIN calls :
            calls[i].fn = "persist" /\ ~calls[i].raised /\ calls[i].ok

\* C3 as claimed: on every add_documents call with a configured store, add is
\* invoked once and then persist exactly once, whatever add reported.
C3_AddThenPersistAlways ==
    (op = "add_documents" /\ store # "none") =>
        /\ Len(calls) = 2
        /\ calls[1].fn = "add_texts"
        /\ calls[2].fn = "persist"

\* C3 as amended: add is invoked once; when add returns (an id sequence or the
\* empty sequence) persist is invoked exactly once after it; when add raises,
\* persist is not invoked and add_documents returns the empty sequence.
C3_AddThenPersistUnlessAddRaises ==
    (op = "add_documents" /\ store # "none") =>
        /\ Len(calls) >= 1
        /\ calls[1].fn = "add_texts"
        /\ IF calls[1].raised
           THEN Len(calls) = 1 /\ ret.seq = <<>>
           ELSE Len(calls) = 2 /\ calls[2].fn = "persist"

C3_Witness ==
    /\ op = "add_documents" /\ store = "chroma"
    /\ args.texts # <<>>
    /\ ~calls[1].raised /\ calls[1].seq = <<>>
    /\ Len(calls) = 2 /\ calls[2].fn = "persist"

\* C4 as claimed: delete_documents calls persist iff delete returned success,
\* never before delete, and returns exactly the boolean delete returned.
C4_DeleteThenPersistIffSuccess ==
    (op = "delete_documents" /\ store # "none") =>
        /\ Len(calls) >= 1
        /\ calls[1].fn = "delete"
        /\ (Len(calls) = 2) <=> (~calls[1].raised /\ calls[1].ok)
        /\ Len(calls) <= 2
        /\ Len(calls) = 2 => calls[2].fn = "persist"
        /\ ~calls[1].raised => ret.ok = calls[1].ok

\* C4 as amended: as claimed, except that when persist() itself raises
\* delete_documents returns False although delete returned True.
C4_DeleteThenPersistUnlessPersistRaises ==
    (op = "delete_documents" /\ store # "none") =>
        /\ Len(calls) >= 1
        /\ calls[1].fn = "delete"
        /\ (Len(calls) = 2) <=> (~calls[1].raised /\ calls[1].ok)
        /\ Len(calls) <= 2
        /\ Len(calls) = 2 => calls[2].fn = "persist"
        /\ IF Len(calls) = 2 /\ calls[2].raised
           THEN ret.ok = FALSE
           ELSE ~calls[1].raised => ret.ok = calls[1].ok

C4_Witness ==
    /\ op = "delete_documents" /\ store = "chroma"
    /\ Len(calls) = 2 /\ calls[1].ok /\ calls[2].fn = "persist"
    /\ ret.ok
    /\ Len(coll) < Len(collBefore)

\* the entries of c a filter-delete must remove / must keep
Matching(c, f) == SelectIdx(c, {i \in DOMAIN c : Matches(c[i].metadata, f)}, 1)
NotMatching(c, f) == SelectIdx(c, {i \in DOMAIN c : ~Matches(c[i].metadata, f)}, 1)

FilterDelete ==
    /\ op \in {"delete", "delete_documents"}
    /\ store = "chroma"
    /\ IsNone(args.ids)
    /\ ~IsNone(args.filter)

\* C5 as claimed: delete(filter=f) and delete_documents(filter=f) remove
\* exactly the stored entries whose metadata matches f and leave the others.
C5_FilterDeleteExact ==
    FilterDelete => coll = NotMatching(collBefore, args.filter[1])

\* C5 as amended: for a non-empty f, when no collection call raises, exactly
\* the entries matching f are removed, the ids being resolved by a get and
\* then deleted by id, and the operation returns True; when a collection call
\* raises nothing is removed and the operation returns False.
C5_FilterDeleteExactOnSuccess ==
    (FilterDelete /\ args.filter[1] # {}) =>
        LET f == args.filter[1]
            hit == Matching(collBefore, f)
            hitIds == [i \in DOMAIN hit |-> hit[i].id]
        IN  IF SomeCollectionCallRaised
            THEN coll = collBefore /\ ~ret.ok
            ELSE /\ coll = NotMatching(collBefore, f)
                 /\ ret.ok
                 /\ bcalls[1] = BCall("get", FALSE, hitIds)
                 /\ IF hit = <<>> THEN Len(bcalls) = 1
                    ELSE /\ Len(bcalls) = 2
                         /\ bcalls[2] = BCall("delete", FALSE, hitIds)

C5_Witness ==
    /\ FilterDelete /\ op = "delete_documents"
    /\ args.filter[1] # {}
    /\ ~SomeCollectionCallRaised
    /\ coll # <<>>
    /\ Len(coll) < Len(collBefore)

\* C6: retrieve, add_documents and delete_documents never raise; with no
\* store configured or when the store operation raises they return the empty
\* sequence, the empty sequence and False.
C6_RetrieverNeverRaises ==
    op \in RetrieverOps =>
        /\ ~ret.raised
        /\ (store = "none" \/ SomeCallRaised) => (ret.seq = <<>> /\ ~ret.ok)

C6_Witness ==
    /\ op = "retrieve" /\ store = "custom"
    /\ SomeCallRaised
    /\ ret = Ret0

\* C7: when the collection raises, the ChromaVectorStore operations return
\* their failure values instead of raising: add and search the empty
\* sequence, delete False, count 0.
C7_StoreFailureValues ==
    (op \in {"add_texts", "similarity_search", "delete", "count"}
        /\ SomeCollectionCallRaised) =>
        /\ ~ret.raised
        /\ ret.seq = <<>>
        /\ ~ret.ok
        /\ ret.n = 0

C7_Witness ==
    /\ op = "count"
    /\ SomeCollectionCallRaised
    /\ coll # <<>>
    /\ ret.n = 0 /\ ~ret.raised

----------------------------------------------------------------------------
(* Properties of the chunker *)

\* chunk_size > 0 and 0 <= chunk_overlap < chunk_size
InContract == chunk_size > 0 /\ 0 <= chunk_overlap /\ chunk_overlap < chunk_size

\* the character-stride algorithm ran: called directly, or reached from
\* chunk_text because the separator is absent
ByChars ==
    \/ cpc = "_chunk_text_by_chars"
    \/ cpc = "chunk_text" /\ text # <<>> /\ Len(Split(text, separator)) = 1

\* C8: inside the contract, the character-stride algorithm returns only
\* chunks of length <= chunk_size.
C8_CharChunksWithinSize ==
    (ByChars /\ InContract) =>
        /\ ~chunks.raised
        /\ \A j \in DOMAIN chunks.seq : Len(chunks.seq[j]) <= chunk_size

C8_Witness ==
    /\ cpc = "chunk_text" /\ ByChars /\ InContract
    /\ chunk_overlap > 0
    /\ Len(chunks.seq) >= 2
    /\ \E j \in DOMAIN chunks.seq : Len(chunks.seq[j]) = chunk_size

\* C9: inside the contract and for a text longer than chunk_size, the windows
\* start at 0, stride, 2*stride, ... with stride = chunk_size - chunk_overlap,
\* each is chunk_size wide clamped to the end of the text, the loop stops at
\* the first window that reaches the end, the last chunk ends exactly at the
\* end, and every character position lies in some chunk.
C9_StrideWindowsCoverText ==
    (ByChars /\ InContract /\ Len(text) > chunk_size) =>
        LET w == chunks.wins
            stride == chunk_size - chunk_overlap
        IN  /\ ~chunks.raised
            /\ Len(w) >= 1
            /\ Len(chunks.seq) = Len(w)
            /\ \A j \in DOMAIN w :
                 /\ w[j][1] = (j - 1) * stride
                 /\ w[j][2] = Min(w[j][1] + chunk_size, Len(text))
                 /\ chunks.seq[j] = SubSeq(text, w[j][1] + 1, w[j][2])
                 /\ (w[j][2] = Len(text)) <=> (j = Len(w))
            /\ \A p \in 0..(Len(text) - 1) :
                 \E j \in DOMAIN w : w[j][1] <= p /\ p < w[j][2]

C9_Witness ==
    /\ ByChars /\ InContract /\ Len(text) > chunk_size
    /\ chunk_overlap > 0
    /\ Len(chunks.wins) >= 3
    /\ chunks.wins[Len(chunks.wins)][2] = Len(text)

\* C10: chunk_text returns a sequence without raising for every text and
\* every integer chunk_size and chunk_overlap, also outside the contract.
C10_ChunkTextNeverRaises ==
    cpc = "chunk_text" => ~chunks.raised

----------------------------------------------------------------------------
(* Claims about the separator algorithm of chunk_text.                     *)

SepMode ==
    cpc = "chunk_text" /\ text # <<>> /\ Len(Split(text, separator)) > 1

SegmentsFit ==
    \A j \in DOMAIN Split(text, separator) :
        Len(Split(text, separator)[j]) <= chunk_size

NoEmptySegment ==
    \A j \in DOMAIN Split(text, separator) : Split(text, separator)[j] # <<>>

\* C11: for every text, separator and chunk_size in which no segment is
\* longer than chunk_size, joining the chunks of
\* chunk_text(text, chunk_size, 0, separator) with the separator gives back
\* exactly the text.  The formula takes the claim on the texts all of whose
\* segments are non-empty, where the discarding of empty segments plays no
\* part in the result.
C11_RejoinGivesText ==
    (cpc = "chunk_text" /\ chunk_overlap = 0 /\ SegmentsFit /\ NoEmptySegment)
        => /\ ~chunks.raised
           /\ Join(chunks.seq, separator) = text

LastSegments(parts, r) == SubSeq(parts, Len(parts) - r + 1, Len(parts))

\* the length of the shortest trailing run of one or more segments of the
\* closed chunk whose joined length is >= chunk_overlap; the whole chunk
\* when there is none
ShortestRun(closed) ==
    LET ok == {r \in 1..Len(closed) :
                  Len(Join(LastSegments(closed, r), separator)) >= chunk_overlap}
    IN  IF ok = {} THEN Len(closed)
        ELSE CHOOSE r \in ok : \A q \in ok : r <= q

\* C12: in separator mode each chunk after the first begins with a trailing
\* run of whole segments of the chunk closed just before it; the run is the
\* shortest trailing run whose joined length is >= chunk_overlap, or the
\* whole closed chunk when its joined length is below chunk_overlap, so two
\* consecutive chunks share at least min(chunk_overlap, length of the closed
\* chunk) characters.
C12_OverlapIsShortestTrailingRun ==
    SepMode =>
        \A j \in 1..(Len(chunks.parts) - 1) :
            LET closed == chunks.parts[j]
                nxt == chunks.parts[j + 1]
                r == ShortestRun(closed)
                shared == Join(LastSegments(closed, r), separator)
            IN  /\ Len(nxt) >= r
                /\ SubSeq(nxt, 1, r) = LastSegments(closed, r)
                /\ (Len(chunks.seq[j]) < chunk_overlap) => (r = Len(closed))
                /\ Len(shared) >= Min(chunk_overlap, Len(chunks.seq[j]))
                /\ Len(chunks.seq[j + 1]) >= Len(shared)
                /\ SubSeq(chunks.seq[j + 1], 1, Len(shared)) = shared
                /\ SubSeq(chunks.seq[j], Len(chunks.seq[j]) - Len(shared) + 1,
                          Len(chunks.seq[j])) = shared

C12_Witness ==
    /\ SepMode /\ InContract /\ chunk_overlap >= 1
    /\ Len(chunks.parts) >= 2
    /\ Len(chunks.parts[1]) >= 2
    /\ ShortestRun(chunks.parts[1]) = 2
    /\ Len(chunks.parts[2]) = 3

\* C13: in separator mode with 0 <= chunk_overlap < chunk_size and no single
\* segment longer than chunk_size, every chunk has joined length at most
\* chunk_size.
C13_SeparatorChunksWithinSize ==
    (SepMode /\ InContract /\ SegmentsFit) =>
        /\ ~chunks.raised
        /\ \A j \in DOMAIN chunks.seq : Len(chunks.seq[j]) <= chunk_size

----------------------------------------------------------------------------
(* Claims about all the chunkers.                                          *)

\* C14: chunk_text, chunk_by_tokens and chunk_markdown return the empty
\* sequence for the empty text, and none of them ever returns the empty
\* string as a chunk, for any text.
C14_NoEmptyChunk ==
    (cpc \in {"chunk_text", "chunk_by_tokens", "chunk_markdown"}
     /\ ~chunks.raised) =>
        /\ (text = <<>>) => (chunks.seq = <<>>)
        /\ \A j \in DOMAIN chunks.seq : chunks.seq[j] # <<>>

----------------------------------------------------------------------------
(* Claims about the document processor.                                    *)

FileCall == dop = "process_file"
DirCall == dop = "process_directory" /\ dargs.directory_path = RootDir

\* the caller's metadata, {} when omitted
CallerMeta == IF IsNone(dargs.metadata) THEN EmptyDict ELSE dargs.metadata[1]

\* the files process_directory discovers, in discovery order
Visible == Discovered(fs, dargs.recursive)

\* the chunks the chunker produces for one file alone
FileChunks(f) ==
    IF f.readable
    THEN chunk_text(f.content, dp.chunk_size, dp.chunk_overlap, <<"n">>).seq
    ELSE <<>>

\* ds are the documents of the chunks c of one file: the texts in order,
\* chunk_index 0..n-1 and chunk_count n
IsBlock(ds, c) ==
    /\ Len(ds) = Len(c)
    /\ \A j \in 1..Len(c) :
         /\ ds[j].text = c[j]
         /\ {"chunk_index", "chunk_count"} \subseteq DOMAIN ds[j].metadata
         /\ ds[j].metadata.chunk_index = j - 1
         /\ ds[j].metadata.chunk_count = Len(c)

\* ds is the concatenation of the blocks of some of the files, in the
\* order of the files
RECURSIVE InBlocks(_, _)
InBlocks(ds, files) ==
    IF ds = <<>> THEN TRUE
    ELSE IF files = <<>> THEN FALSE
    ELSE LET n == Len(FileChunks(Head(files)))
         IN  \/ /\ n >= 1 /\ Len(ds) >= n
                /\ IsBlock(SubSeq(ds, 1, n), FileChunks(Head(files)))
                /\ InBlocks(SubSeq(ds, n + 1, Len(ds)), Tail(files))
             \/ InBlocks(ds, Tail(files))

\* C15: the chunks process_file returns for one file carry chunk_index
\* 0..n-1 in order and chunk_count n, n being the number of chunks the
\* chunker produced for that file alone, also when the caller's metadata
\* holds those keys; process_directory appends each file's chunks
\* contiguously, in discovery order, with the per-file counts.
C15_ChunkIndexPerFile ==
    /\ FileCall =>
         \/ docs.seq = <<>>
         \/ \E i \in DOMAIN fs :
              fs[i].path = dargs.path /\ IsBlock(docs.seq, FileChunks(fs[i]))
    /\ DirCall => InBlocks(docs.seq, Visible)

C15_Witness ==
    /\ DirCall
    /\ "chunk_index" \in DOMAIN CallerMeta
    /\ \E j \in 1..(Len(docs.seq) - 2) :
         /\ docs.seq[j].metadata.chunk_index = 0
         /\ docs.seq[j].metadata.chunk_count = 2
         /\ docs.seq[j + 1].metadata.chunk_index = 1
         /\ docs.seq[j + 2].metadata.chunk_index = 0

BaseFields == {"source", "file_type", "file_name", "relative_path"}

\* C16: for every key that is both a base field (source, file_type,
\* file_name, relative_path) and a key of the caller's metadata, every
\* chunk's metadata carries the caller's value, for process_file and for
\* process_directory.
C16_CallerWinsOnBaseFields ==
    (FileCall \/ DirCall) =>
        \A j \in DOMAIN docs.seq :
            \A k \in BaseFields \cap DOMAIN CallerMeta :
                /\ k \in DOMAIN docs.seq[j].metadata
                /\ docs.seq[j].metadata[k] = CallerMeta[k]

\* some returned chunk comes from file f
Contributes(f) ==
    \E j \in DOMAIN docs.seq :
        docs.seq[j].metadata.relative_path = RelativePath(f, dargs.recursive)

\* the effective allow-list: the caller's file_types when given, otherwise
\* the default set, each written as a lower-case suffix
AllowList == Range(EffectiveTypes(dargs.file_types))

\* C17: process_directory returns chunks from exactly the readable,
\* non-empty files whose lower-cased extension is in the effective
\* allow-list and never raises on the others: a file whose extension the
\* caller put in file_types is processed, a file outside the list is
\* skipped.
C17_DirectoryProcessesAllowList ==
    DirCall =>
        /\ ~docs.raised
        /\ \A i \in DOMAIN Visible :
             Contributes(Visible[i]) <=>
                 /\ Visible[i].readable
                 /\ Visible[i].content # <<>>
                 /\ Lower(Visible[i].suffix) \in AllowList

\* a file process_directory hands on and process_file accepts
Eligible(f) ==
    /\ Lower(f.suffix) \in AllowList
    /\ Lower(f.suffix) \in Range(SupportedTypes)

\* <<relative path, chunk>> for every chunk of every eligible file
RECURSIVE ExpectedFrom(_)
ExpectedFrom(files) ==
    IF files = <<>> THEN <<>>
    ELSE LET f == Head(files)
             c == IF Eligible(f) THEN FileChunks(f) ELSE <<>>
         IN  [j \in 1..Len(c) |-> <<RelativePath(f, dargs.recursive), c[j]>>]
                 \o ExpectedFrom(Tail(files))

\* C18: in process_directory a file that cannot be read or decoded gives no
\* chunk and no exception, and the chunks of every other eligible file,
\* discovered before or after it, are all in the result.
C18_UnreadableFileSkipped ==
    DirCall =>
        /\ ~docs.raised
        /\ \A i \in DOMAIN Visible :
             ~Visible[i].readable => ~Contributes(Visible[i])
        /\ [j \in 1..Len(docs.seq) |->
               <<docs.seq[j].metadata.relative_path, docs.seq[j].text>>]
           = ExpectedFrom(Visible)

C18_Witness ==
    /\ DirCall
    /\ \E i, j, k \in DOMAIN Visible :
         /\ i < j /\ j < k
         /\ ~Visible[j].readable /\ Eligible(Visible[j])
         /\ Contributes(Visible[i])
         /\ Contributes(Visible[k])

----------------------------------------------------------------------------
(* Claims about the ids of add_texts and the results of retrieve.          *)

\* the entry of collection c stored under id
EntryOf(c, id) == c[CHOOSE i \in DOMAIN c : c[i].id = id]

\* C19: a successful add returns one id per text, in order: the caller's
\* ids when given, otherwise freshly generated pairwise-distinct ids; each
\* text is stored under its id, with the empty mapping when metadatas is
\* omitted; an add with no texts returns the empty sequence and leaves the
\* collection unchanged.
C19_AddReturnsIdsInOrder ==
    op = "add_texts" =>
        /\ (args.texts = <<>>) =>
               (ret.seq = <<>> /\ coll = collBefore /\ bcalls = <<>>)
        /\ (args.texts # <<>> /\ ~SomeCollectionCallRaised) =>
               ret.seq # <<>>
        /\ (ret.seq # <<>>) =>
             /\ Len(ret.seq) = Len(args.texts)
             /\ ~IsNone(args.ids) => ret.seq = args.ids[1]
             /\ IsNone(args.ids) =>
                  /\ Cardinality(Range(ret.seq)) = Len(ret.seq)
                  /\ Range(ret.seq) \cap CollIds(collBefore) = {}
             /\ \A i \in DOMAIN ret.seq :
                  /\ ret.seq[i] \in CollIds(coll)
                  /\ ret.seq[i] \notin CollIds(collBefore) =>
                       /\ EntryOf(coll, ret.seq[i]).text = args.texts[i]
                       /\ EntryOf(coll, ret.seq[i]).metadata =
                              (IF IsNone(args.metadatas) THEN {}
                               ELSE args.metadatas[1][i])

C19_Witness ==
    /\ op = "add_texts"
    /\ IsNone(args.ids) /\ IsNone(args.metadatas)
    /\ Len(ret.seq) = 2
    /\ Len(coll) = 2
    /\ \A i \in DOMAIN coll : coll[i].metadata = {}

\* C20: retrieve returns the result sequence of the store's search
\* unchanged: the same elements in the same order, nothing added, dropped
\* or altered.
C20_RetrieveReturnsSearchResults ==
    (op = "retrieve" /\ store # "none" /\ ~SomeCallRaised) =>
        /\ Len(calls) = 1
        /\ calls[1].fn = "similarity_search"
        /\ ret.seq = calls[1].seq

C20_Witness ==
    /\ op = "retrieve" /\ store = "chroma"
    /\ Len(ret.seq) = 2
    /\ ret.seq[1] # ret.seq[2]

----------------------------------------------------------------------------
(* The round trip through the retriever.                                   *)

\* add_documents([t]) ran on an empty collection
AddedOne ==
    /\ op = "add_documents"
    /\ collBefore = <<>>
    /\ Len(args.texts) = 1

\* retrieve(t, top_k=1) ran on the collection add_documents([t]) left
RetrievedOne ==
    /\ op = "retrieve"
    /\ Len(collBefore) = 1
    /\ args.query = collBefore[1].text
    /\ args.top_k = Some(1)
    /\ IsNone(args.filter)

\* C21 as claimed: on an empty collection add_documents([t]) stores t, and
\* retrieve(t, top_k=1) then returns exactly one result, whose text is t.
C21_AddThenRetrieve ==
    /\ (AddedOne /\ store # "none") =>
           (Len(coll) = 1 /\ coll[1].text = args.texts[1])
    /\ RetrievedOne =>
           (Len(ret.seq) = 1 /\ ret.seq[1].text = args.query)

\* C21 as amended: the same for a ChromaVectorStore none of whose
\* collection calls raises; when the add raises nothing is stored and when
\* the query raises retrieve returns the empty sequence.
C21_AddThenRetrieveUnlessRaised ==
    /\ (AddedOne /\ store = "chroma") =>
           IF SomeCollectionCallRaised
           THEN coll = <<>> /\ ret.seq = <<>>
           ELSE /\ Len(coll) = 1 /\ coll[1].text = args.texts[1]
                /\ Len(ret.seq) = 1 /\ ret.seq[1] = coll[1].id
    /\ RetrievedOne =>
           IF SomeCollectionCallRaised
           THEN ret.seq = <<>>
           ELSE /\ Len(ret.seq) = 1
                /\ ret.seq[1].text = args.query
                /\ ret.seq[1].id = collBefore[1].id

C21_Witness ==
    /\ RetrievedOne
    /\ ~SomeCollectionCallRaised
    /\ Len(ret.seq) = 1
    /\ ret.seq[1].text = "hello world"

----------------------------------------------------------------------------
(* Claims about the retries of the provider.                               *)

InChat == lfn \in ChatMethods
InEmbedding == lfn \in EmbeddingMethods

IsRequest(i) == llog[i].kind = "request"
Failed(i) == IsRequest(i) /\ llog[i].out.raised
Succeeded(i) == IsRequest(i) /\ ~llog[i].out.raised

\* the number of the attempt the i-th entry of the log belongs to
AttemptNo(i) == Cardinality({j \in 1..i : IsRequest(j)})

Attempts == Cardinality({i \in DOMAIN llog : IsRequest(i)})

\* the text of an answer of the chat API
AnswerText(out) ==
    IF out.choices = <<>> \/ IsNone(out.choices[1]) THEN "" ELSE out.choices[1][1]

\* C22: generate and generate_with_history make at most 3 attempts per
\* call; a successful attempt ends the call at once with its text; failed
\* attempt 1 is followed by a wait of 1 second and failed attempt 2 by a
\* wait of 2 seconds, each before the next attempt; the third failure ends
\* the call with the empty string, with no wait; the call never raises.
C22_ChatRetryPolicy ==
    InChat =>
        /\ Attempts <= 3
        /\ ~lret.raised
        /\ \A i \in DOMAIN llog :
               /\ Succeeded(i) =>
                      /\ i = Len(llog)
                      /\ lpc = "done"
                      /\ lret.value = AnswerText(llog[i].out)
               /\ (Failed(i) /\ AttemptNo(i) \in {1, 2}) =>
                      /\ i = Len(llog) => lpc = "sleep"
                      /\ i < Len(llog) =>
                             /\ llog[i + 1].kind = "sleep"
                             /\ llog[i + 1].secs = <<1, 2>>[AttemptNo(i)]
               /\ (Failed(i) /\ AttemptNo(i) = 3) =>
                      /\ i = Len(llog)
                      /\ lpc = "done"
                      /\ lret.value = ""
               /\ llog[i].kind = "sleep" =>
                      /\ i > 1 /\ Failed(i - 1)
                      /\ i = Len(llog) => lpc = "attempt"
                      /\ i < Len(llog) => IsRequest(i + 1)

C22_Witness ==
    /\ lfn = "generate_with_history"
    /\ lpc = "done"
    /\ Attempts = 3
    /\ Len(llog) = 5
    /\ llog[2].secs = 1 /\ llog[4].secs = 2
    /\ Failed(5)
    /\ lret.value = ""

\* C23 as claimed: get_embedding retries like generate, so a failed attempt
\* before the third one never ends the call.
C23_EmbeddingRetries ==
    InEmbedding =>
        \A i \in DOMAIN llog :
            (Failed(i) /\ AttemptNo(i) < max_retries) =>
                ~(i = Len(llog) /\ lpc = "done")

----------------------------------------------------------------------------
(* Claims about the similarity functions.                                  *)

ZeroNorm(v) == \A i \in DOMAIN v : v[i] = 0

EmptyOrMismatched == vec1 = <<>> \/ vec2 = <<>> \/ Len(vec1) # Len(vec2)

\* empty, of different dimensions, or of zero norm
Degenerate == EmptyOrMismatched \/ ZeroNorm(vec1) \/ ZeroNorm(vec2)

\* C24: cosine_similarity returns 0.0 and does not raise whenever either
\* vector is empty, the dimensions differ, or either vector has zero norm.
C24_CosineNeutralOnDegenerate ==
    (vfn = "cosine_similarity" /\ Degenerate) =>
        (~vret.raised /\ vret.kind = "zero")

C24_Witness ==
    /\ vfn = "cosine_similarity"
    /\ vec1 = <<0, 0>> /\ vec2 = <<1, 0>>
    /\ vret.kind = "zero"

\* C25 as claimed: euclidean_distance returns +infinity and does not raise
\* whenever either vector is empty, the dimensions differ, or either vector
\* has zero norm.
C25_EuclideanInfOnDegenerate ==
    (vfn = "euclidean_distance" /\ Degenerate) =>
        (~vret.raised /\ vret.kind = "inf")

\* C25 as amended: euclidean_distance returns +infinity exactly when either
\* vector is empty or the dimensions differ; otherwise, a vector of zero
\* norm included, it returns the norm of the difference, and never raises.
C25_EuclideanInfOnEmptyOrMismatch ==
    vfn = "euclidean_distance" =>
        /\ ~vret.raised
        /\ EmptyOrMismatched => vret.kind = "inf"
        /\ ~EmptyOrMismatched =>
               /\ vret.kind = "root"
               /\ vret.num = Dot(Minus(vec1, vec2), Minus(vec1, vec2))

C25_Witness ==
    /\ vfn = "euclidean_distance"
    /\ vec1 = <<0, 0>> /\ vec2 = <<1, 0>>
    /\ vret.kind = "root" /\ vret.num = 1

----------------------------------------------------------------------------
(* Claims about the modes of chunk_text and about chunk_markdown.          *)

\* the segments of the text that are left when the empty ones are discarded
NonEmptySegments ==
    SelectSeq(Split(text, separator), LAMBDA seg : seg # <<>>)

\* C26 as claimed: whenever the text has exactly one non-empty segment,
\* chunk_text returns the character-stride chunking of the text, and so only
\* chunks of length <= chunk_size.  The formula takes the claim inside the
\* contract of the sizes, where the character-stride algorithm returns.
C26_OneSegmentFallsBack ==
    (cpc = "chunk_text" /\ InContract /\ Len(NonEmptySegments) = 1) =>
        /\ ~chunks.raised
        /\ chunks.seq = _chunk_text_by_chars(text, chunk_size, chunk_overlap).seq
        /\ \A j \in DOMAIN chunks.seq : Len(chunks.seq[j]) <= chunk_size

\* the number of "#" the line begins with
RECURSIVE Hashes(_)
Hashes(line) ==
    IF line # <<>> /\ line[1] = "#" THEN 1 + Hashes(Tail(line)) ELSE 0

\* a heading line: one to six "#", then a space
IsHeading(line) ==
    /\ Hashes(line) \in 1..6
    /\ Hashes(line) < Len(line)
    /\ line[Hashes(line) + 1] = " "

\* the first line of c, without its newline
FirstLine(c) ==
    LET ends == {p \in DOMAIN c : c[p] = "n"}
    IN  IF ends = {} THEN c
        ELSE SubSeq(c, 1, (CHOOSE p \in ends : \A q \in ends : p <= q) - 1)

\* the last line of c, which ends with a newline, without that newline
LastLine(c) ==
    LET ends == {p \in 1..(Len(c) - 1) : c[p] = "n"}
    IN  IF ends = {} THEN SubSeq(c, 1, Len(c) - 1)
        ELSE SubSeq(c, (CHOOSE p \in ends : \A q \in ends : p >= q) + 1,
                    Len(c) - 1)

EndsWithHeading(c) == c # <<>> /\ c[Len(c)] = "n" /\ IsHeading(LastLine(c))

\* c begins with a line of content: not empty, not beginning with "#"
StartsWithContent(c) == FirstLine(c) # <<>> /\ FirstLine(c)[1] # "#"

\* C27 as claimed: chunk_markdown places its chunk boundaries only between
\* units made of a heading line and the content that follows it, so a
\* heading line never ends one chunk while its content starts the next.
\* The formula takes the claim at chunk_overlap = 0, where the chunks are
\* consecutive pieces of the text.
C27_HeadingStaysWithContent ==
    (cpc = "chunk_markdown" /\ chunk_size > 0 /\ chunk_overlap = 0) =>
        \A j \in 1..(Len(chunks.seq) - 1) :
            ~(EndsWithHeading(chunks.seq[j])
              /\ StartsWithContent(chunks.seq[j + 1]))

----------------------------------------------------------------------------
(* Claims about the loop of the separator algorithm.                       *)

\* the length current_chunk has when joined with the separator
JoinedLen(current_chunk) == Len(Join(current_chunk, separator))

ClosedTests == {k \in DOMAIN chunks.tests : chunks.tests[k].closed}

\* C28: in separator mode the loop tests every non-empty segment in order;
\* the chunk is closed at a test exactly when it is non-empty and its joined
\* length plus the separator plus the segment exceeds chunk_size; at every
\* test current_size is the joined length of current_chunk, also at the
\* test after a chunk was re-seeded with overlap segments; the chunks
\* closed are the chunks returned, followed by the last one.
C28_CloseTestOnJoinedLength ==
    SepMode =>
        /\ [k \in DOMAIN chunks.tests |-> chunks.tests[k].split] = NonEmptySegments
        /\ \A k \in DOMAIN chunks.tests :
               LET t == chunks.tests[k]
               IN  /\ t.current_size = JoinedLen(t.current_chunk)
                   /\ t.closed <=>
                          /\ t.current_chunk # <<>>
                          /\ JoinedLen(t.current_chunk) + Len(separator)
                                 + Len(t.split) > chunk_size
                   /\ k > 1 =>
                          /\ t.current_chunk # <<>>
                          /\ t.current_chunk[Len(t.current_chunk)]
                                 = chunks.tests[k - 1].split
                   /\ t.closed =>
                          chunks.parts[Cardinality({q \in ClosedTests : q <= k})]
                              = t.current_chunk
        /\ Len(chunks.parts) =
               Cardinality(ClosedTests) + (IF chunks.tests = <<>> THEN 0 ELSE 1)

C28_Witness ==
    /\ SepMode /\ InContract /\ chunk_overlap >= 1
    /\ \E k \in 1..(Len(chunks.tests) - 1) :
           /\ chunks.tests[k].closed
           /\ Len(chunks.tests[k + 1].current_chunk) >= 2
           /\ chunks.tests[k + 1].current_size
                  = JoinedLen(chunks.tests[k + 1].current_chunk)

\* parts is the run of the non-empty segments that ends at segment number b
IsRunEndingAt(parts, b) ==
    /\ Len(parts) >= 1
    /\ Len(parts) <= b
    /\ parts = SubSeq(NonEmptySegments, b - Len(parts) + 1, b)

\* C29: in separator mode each chunk is a contiguous run of the non-empty
\* segments joined with the separator, the runs end at strictly increasing
\* segments, every non-empty segment lies whole in some run, also one
\* longer than chunk_size, and there are at most as many chunks as
\* non-empty segments.
C29_ChunksAreSegmentRuns ==
    SepMode =>
        LET n == Len(NonEmptySegments)
            m == Len(chunks.seq)
        IN  /\ ~chunks.raised
            /\ m <= n
            /\ \E last \in [1..m -> 1..n] :
                   /\ \A j \in 1..m :
                          /\ IsRunEndingAt(chunks.parts[j], last[j])
                          /\ chunks.seq[j] = Join(chunks.parts[j], separator)
                   /\ \A j \in 1..(m - 1) : last[j] < last[j + 1]
                   /\ \A k \in 1..n :
                          \E j \in 1..m :
                              /\ last[j] - Len(chunks.parts[j]) < k
                              /\ k <= last[j]

C29_Witness ==
    /\ SepMode /\ InContract
    /\ Len(NonEmptySegments) = 2
    /\ Len(chunks.seq) = 2
    /\ Len(NonEmptySegments[1]) > chunk_size
    /\ chunks.seq[1] = NonEmptySegments[1]
    /\ Len(chunks.parts[2]) = 2

----------------------------------------------------------------------------
(* Claims about the dispatch of ChromaVectorStore.delete.                  *)

ChromaDelete == op \in {"delete", "delete_documents"} /\ store = "chroma"

\* ids is a non-empty list / filter is a non-empty dict
IdsGiven == ~IsNone(args.ids) /\ Len(args.ids[1]) >= 1
FilterGiven == ~IsNone(args.filter) /\ args.filter[1] # {}

\* the entries of c whose id is not among ids
WithoutIds(c, ids) == SelectIdx(c, {i \in DOMAIN c : c[i].id \notin Range(ids)}, 1)

\* the collection calls made: the function and the ids of each
Issued == [i \in DOMAIN bcalls |-> <<bcalls[i].fn, bcalls[i].ids>>]

\* what the three branches do
DeleteDispatch ==
    /\ IdsGiven =>
           /\ coll = WithoutIds(collBefore, args.ids[1])
           /\ Issued = << <<"delete", args.ids[1]>> >>
    /\ (~IdsGiven /\ FilterGiven) =>
           LET hit == Matching(collBefore, args.filter[1])
               hitIds == [i \in DOMAIN hit |-> hit[i].id]
           IN  /\ coll = NotMatching(collBefore, args.filter[1])
               /\ Issued = IF hit = <<>> THEN << <<"get", hitIds>> >>
                           ELSE << <<"get", hitIds>>, <<"delete", hitIds>> >>
    /\ (~IdsGiven /\ ~FilterGiven) =>
           /\ coll = collBefore
           /\ bcalls = <<>>
           /\ ret.ok
           /\ op = "delete_documents" =>
                  (Len(calls) = 2 /\ calls[2].fn = "persist")

\* C30 as claimed: delete deletes exactly the given ids when ids is
\* non-empty, ignoring filter; otherwise, for a non-empty filter, the entries
\* matching it, with no backend delete when nothing matches; and when both
\* are empty or None it deletes nothing and returns True, so that
\* delete_documents calls persist().
C30_DeleteDispatch == ChromaDelete => DeleteDispatch

\* C30 as amended: the same when no collection call raises; when the
\* collection's delete or get raises, nothing is removed and delete returns
\* False.
C30_DeleteDispatchUnlessRaised ==
    ChromaDelete =>
        IF SomeCollectionCallRaised
        THEN /\ coll = collBefore
             /\ ~ret.ok
             /\ IdsGiven \/ FilterGiven
             /\ IdsGiven => bcalls = <<BCall("delete", TRUE, args.ids[1])>>
             /\ ~IdsGiven => bcalls[1].fn = "get"
        ELSE DeleteDispatch /\ ret.ok

C30_Witness ==
    /\ ChromaDelete /\ op = "delete"
    /\ IdsGiven /\ FilterGiven
    /\ ~SomeCollectionCallRaised
    /\ Len(coll) = 1 /\ Len(collBefore) = 2
    /\ Matches(coll[1].metadata, args.filter[1])

====
